---- MODULE Spec2Model ----
(***************************************************************************)
(* The form-automation core of AutoJobApplier (LinkedInBotPlaywright), as  *)
(* documented in src/IMPLEMENTATION.md: modal location with retry, the     *)
(* fill pass over the controls of the modal, error checking with the       *)
(* consecutive-error abort, the navigation loop of                         *)
(* _handle_application_modal and the job loop of apply_to_jobs.            *)
(*                                                                         *)
(* Text is modelled as sequences of one-character strings, so that         *)
(* lower(), substring tests and len() are computed as the code computes    *)
(* them.                                                                   *)
(***************************************************************************)
EXTENDS Integers, Sequences, FiniteSets, TLC

----------------------------------------------------------------------------
(* Bounds of the model *)

\* Jobs in one batch run (config.yaml limit.daily_applications is 20).
MaxJobs == 2

\* Step budget of one application; its value is not given in the sources.
MAX_STEPS == 3

\* Longest answer-service response that is cleaned on its own.
MaxResponseLen == 4

----------------------------------------------------------------------------
(* Program constants *)

MAX_RETRIES == 3

RETRY_DELAY == 2

\* "if consecutive_errors >= 3"
MAX_CONSECUTIVE_ERRORS == 3

\* "IF current_value is not empty AND length < 100"
PREFILLED_MAX_LEN == 100

MODAL_SELECTORS == <<".jobs-easy-apply-modal", "[role=dialog]", ".jobs-easy-apply-content">>

SKIP_KEYWORDS ==
    << <<"s","e","a","r","c","h"," ","b","y"," ","t","i","t","l","e">>,
       <<"s","e","a","r","c","h"," ","f","o","r">>,
       <<"t","y","p","e"," ","t","o"," ","s","e","a","r","c","h">>,
       <<"f","i","l","t","e","r"," ","r","e","s","u","l","t","s"," ","b","y">>,
       <<"f","i","l","t","e","r"," ","b","y">> >>

CONSENT_KEYWORDS ==
    << <<"a","g","r","e","e">>,
       <<"c","o","n","s","e","n","t">>,
       <<"a","c","k","n","o","w","l","e","d","g","e">>,
       <<"a","c","c","e","p","t">>,
       <<"a","u","t","h","o","r","i","z","e">> >>

\* Option texts that the dropdown handler leaves out of the option list.
PLACEHOLDER_OPTIONS ==
    { <<"s","e","l","e","c","t"," ","a","n"," ","o","p","t","i","o","n">>,
      <<"s","e","l","e","c","t">>,
      <<>> }

----------------------------------------------------------------------------
(* Text *)

UpperLetters == <<"A","B","C","D","E","F","G","H","I","J","K","L","M",
                  "N","O","P","Q","R","S","T","U","V","W","X","Y","Z">>

LowerLetters == <<"a","b","c","d","e","f","g","h","i","j","k","l","m",
                  "n","o","p","q","r","s","t","u","v","w","x","y","z">>

LowerChar(c) ==
    IF \E i \in 1..26 : UpperLetters[i] = c
    THEN LowerLetters[CHOOSE i \in 1..26 : UpperLetters[i] = c]
    ELSE c

\* str.lower()
Lower(s) == [i \in 1..Len(s) |-> LowerChar(s[i])]

\* "sub in s"
Contains(s, sub) ==
    \E i \in 0..(Len(s) - Len(sub)) : SubSeq(s, i + 1, i + Len(sub)) = sub

\* "any(kw in s for kw in kws)"
ContainsAny(s, kws) == \E k \in 1..Len(kws) : Contains(s, kws[k])

IsSpace(c) == c \in {" ", "\n", "\r", "\t"}

\* str.strip()
RECURSIVE StripLeft(_)
StripLeft(s) ==
    IF s # <<>> /\ IsSpace(Head(s)) THEN StripLeft(Tail(s)) ELSE s

RECURSIVE StripRight(_)
StripRight(s) ==
    IF s # <<>> /\ IsSpace(s[Len(s)]) THEN StripRight(SubSeq(s, 1, Len(s) - 1)) ELSE s

Strip(s) == StripRight(StripLeft(s))

\* sep.join(parts)
RECURSIVE Join(_, _)
Join(parts, sep) ==
    IF parts = <<>> THEN <<>>
    ELSE IF Len(parts) = 1 THEN parts[1]
    ELSE parts[1] \o sep \o Join(Tail(parts), sep)

\* A text of n characters.
Filler(n) == [i \in 1..n |-> "x"]

----------------------------------------------------------------------------
(* Answer resolution *)

\* "answer.replace('\n', ' ').replace('\r', ' ')"
ReplaceLineBreaks(s) ==
    [i \in 1..Len(s) |-> IF s[i] \in {"\n", "\r"} THEN " " ELSE s[i]]

\* str.split(): the maximal runs of non-whitespace characters, in order.
RECURSIVE SplitFrom(_, _)
SplitFrom(s, word) ==
    IF s = <<>> THEN (IF word = <<>> THEN <<>> ELSE <<word>>)
    ELSE IF IsSpace(Head(s))
         THEN (IF word = <<>> THEN <<>> ELSE <<word>>) \o SplitFrom(Tail(s), <<>>)
         ELSE SplitFrom(Tail(s), Append(word, Head(s)))

Split(s) == SplitFrom(s, <<>>)

\* The clean-up without the whitespace normalisation.
CleanAnswer_LineBreaksOnly(response) == ReplaceLineBreaks(response)

\* AIHandler.generate_answer, the clean-up of the response:
\* "answer = answer.replace('\n', ' ').replace('\r', ' ')"
\* "answer = ' '.join(answer.split())"
CleanAnswer(response) == Join(Split(ReplaceLineBreaks(response)), <<" ">>)

\* Questions for which the numeric parsing is triggered:
\* "Trigger: Questions with 'cgpa', 'gpa', 'scale'".
NUMERIC_PARSING_KEYWORDS ==
    << <<"c","g","p","a">>, <<"g","p","a">>, <<"s","c","a","l","e">> >>

\* The text before the first "/" of s (all of s when it has none).
RECURSIVE BeforeSlash(_)
BeforeSlash(s) ==
    IF s = <<>> \/ Head(s) = "/" THEN <<>>
    ELSE <<Head(s)>> \o BeforeSlash(Tail(s))

\* Smart numeric parsing: "3.5/4.0" becomes "3.5" for the questions that
\* trigger it; every other answer is written as it is.
NormalizeNumeric(question, answer) ==
    IF ContainsAny(Lower(question), NUMERIC_PARSING_KEYWORDS)
          /\ Contains(answer, <<"/">>)
    THEN Strip(BeforeSlash(answer))
    ELSE answer

\* A shape inference that tests the boolean phrases first.
DetermineFieldType_BooleanFirst(label) ==
    LET l == Lower(label) IN
    IF ContainsAny(l, << <<"a","u","t","h","o","r","i","z","e","d"," ","t","o"," ","w","o","r","k">>,
                         <<"r","e","q","u","i","r","e"," ","s","p","o","n","s","o","r","s","h","i","p">> >>)
    THEN "boolean"
    ELSE IF ContainsAny(l, << <<"p","h","o","n","e">>, <<"m","o","b","i","l","e">>, <<"s","a","l","a","r","y">>, <<"c","o","m","p","e","n","s","a","t","i","o","n">> >>)
            \/ (Contains(l, <<"y","e","a","r">>) /\ Contains(l, <<"e","x","p","e","r","i","e","n","c","e">>))
    THEN "numeric"
    ELSE "text"

\* _determine_field_type(element, label)
DetermineFieldType(label) ==
    LET l == Lower(label) IN
    IF ContainsAny(l, << <<"p","h","o","n","e">>, <<"m","o","b","i","l","e">>,
                         <<"s","a","l","a","r","y">>,
                         <<"c","o","m","p","e","n","s","a","t","i","o","n">> >>)
    THEN "numeric"
    ELSE IF Contains(l, <<"y","e","a","r">>)
            /\ Contains(l, <<"e","x","p","e","r","i","e","n","c","e">>)
    THEN "numeric"
    ELSE IF ContainsAny(l, << <<"a","u","t","h","o","r","i","z","e","d"," ","t","o"," ","w","o","r","k">>,
                              <<"r","e","q","u","i","r","e"," ","s","p","o","n","s","o","r","s","h","i","p">> >>)
    THEN "boolean"
    ELSE "text"

\* A fallback table without entries.
GetFallbackAnswer_Blank(question, field_type) == <<>>

\* _get_fallback_answer(question, field_type)
GetFallbackAnswer(question, field_type) ==
    LET q == Lower(question) IN
    IF Contains(q, <<"p","h","o","n","e">>) \/ Contains(q, <<"m","o","b","i","l","e">>)
    THEN <<"5","5","5","1","2","3","4","5","6","7">>
    ELSE IF Contains(q, <<"e","m","a","i","l">>)
    THEN <<"a","l","e","x",".","d","a","n","n","y","@","e","m","a","i","l",".","c","o","m">>
    ELSE IF Contains(q, <<"c","i","t","y">>)
    THEN <<"N","e","w"," ","Y","o","r","k">>
    ELSE IF Contains(q, <<"s","t","a","t","e">>)
    THEN <<"N","Y">>
    ELSE IF Contains(q, <<"y","e","a","r">>)
            /\ Contains(q, <<"e","x","p","e","r","i","e","n","c","e">>)
    THEN <<"5">>
    ELSE IF Contains(q, <<"s","a","l","a","r","y">>)
            \/ Contains(q, <<"c","o","m","p","e","n","s","a","t","i","o","n">>)
    THEN <<"1","2","0","0","0","0">>
    ELSE IF field_type = "boolean"
    THEN IF Contains(q, <<"s","p","o","n","s","o","r","s","h","i","p">>)
         THEN <<"N","o">>
         ELSE <<"Y","e","s">>
    ELSE <<"N","o","t"," ","a","p","p","l","i","c","a","b","l","e">>

\* One call of the answer service, as seen by _get_answer_with_retry: it
\* raises, or returns a text (possibly empty or blank).
Raises == [raises |-> TRUE, text |-> <<>>]

Returns(t) == [raises |-> FALSE, text |-> t]

\* The loop of _get_answer_with_retry from attempt number `attempt` (0-based)
\* on, against the service behaviour `run` (the outcome of each call in
\* turn); `sleeps` counts the RETRY_DELAY waits made so far.
RECURSIVE RetryFrom(_, _, _, _, _)
RetryFrom(question, field_type, run, attempt, sleeps) ==
    IF attempt >= MAX_RETRIES
    THEN [answer |-> GetFallbackAnswer(question, field_type),
          calls |-> attempt, sleeps |-> sleeps, fallback |-> TRUE]
    ELSE LET r == run[attempt + 1] IN
         IF ~r.raises /\ r.text # <<>> /\ Len(Strip(r.text)) > 0
         THEN [answer |-> r.text, calls |-> attempt + 1,
               sleeps |-> sleeps, fallback |-> FALSE]
         ELSE RetryFrom(question, field_type, run, attempt + 1,
                        IF r.raises /\ attempt < MAX_RETRIES - 1
                        THEN sleeps + 1 ELSE sleeps)

\* _get_answer_with_retry(question, field_type)
GetAnswerWithRetry(question, field_type, run) ==
    RetryFrom(question, field_type, run, 0, 0)

----------------------------------------------------------------------------
(* The controls of the modal and how the filler handles each kind *)

\* A control of the modal as the page holds it.  label is the label that
\* _get_field_label derives for it (the legend, for a radio group); value is
\* the text of a text input, or the text of the selected option of a
\* dropdown or radio group (<<>> when none); options are the option texts of
\* a dropdown or the option labels of a radio group.  touched records that
\* the automation has written to, selected in, clicked or uploaded to the
\* control since the page was rendered.  labelled names the try of
\* _get_field_label that yields the label: the aria-label attribute unless
\* said otherwise.
Control(kind, label, value, checked, files, options) ==
    [kind |-> kind, label |-> label, value |-> value, checked |-> checked,
     files |-> files, options |-> options, touched |-> FALSE,
     labelled |-> "aria-label"]

\* The same control without an aria-label, with an id and a <label for=id>
\* element that holds its label.
LabelledFor(control) == [control EXCEPT !.labelled = "label-for"]

\* The scopes of the DOM queries made to handle one control in the fill
\* pass.  The controls are enumerated with modal.query_selector_all; for a
\* text input or a checkbox _get_field_label is called, and when the element
\* has no aria-label but an id it looks the label element up with
\* self.page.query_selector, on the whole page.
QueryScopes(control) ==
    IF control.kind \in {"text", "checkbox"} /\ control.labelled = "label-for"
    THEN {"modal", "page"}
    ELSE {"modal"}

\* _get_field_label(element).  An element is given by what the four tries
\* read: aria_label and placeholder are the attribute values and parent_label
\* the text of the closest label ancestor (<<>> when there is none, which the
\* tests "if aria_label:" etc. treat like an empty text); label_el is <<>>
\* when the element has no id or no label[for=id] is found, and <<text>>
\* with the inner text of that label element otherwise.
GetFieldLabel(element) ==
    IF element.aria_label # <<>> THEN Strip(element.aria_label)
    ELSE IF element.label_el # <<>> THEN Strip(element.label_el[1])
    ELSE IF element.placeholder # <<>> THEN Strip(element.placeholder)
    ELSE IF element.parent_label # <<>> THEN Strip(element.parent_label)
    ELSE <<"U","n","k","n","o","w","n">>

\* "any(kw in label.lower() for kw in SKIP_KEYWORDS)"
IsSkipLabel(label) == ContainsAny(Lower(label), SKIP_KEYWORDS)

\* "current_value is not empty AND length < 100"
IsPrefilled(value) == value # <<>> /\ Len(value) < PREFILLED_MAX_LEN

\* What handling one control did: the control afterwards, the increment of
\* stats['fields_filled'], and the number of answer-service calls made.
Handled(f, filled, calls) == [field |-> f, filled |-> filled, calls |-> calls]

\* Text input: the loop body of _fill_modal_fields / ALGORITHM fill_field.
FillTextInput(f, run) ==
    IF IsSkipLabel(f.label) THEN Handled(f, 0, 0)
    ELSE IF IsPrefilled(f.value) THEN Handled(f, 0, 0)
    ELSE LET r == GetAnswerWithRetry(f.label, DetermineFieldType(f.label), run)
         IN  Handled([f EXCEPT !.value = NormalizeNumeric(f.label, r.answer),
                                !.touched = TRUE], 1, r.calls)

\* An option list that keeps the placeholders.
SelectableOptions_All(texts) == [i \in 1..Len(texts) |-> Strip(texts[i])]

\* The option list the dropdown handler builds: stripped texts, placeholders
\* left out.
RECURSIVE SelectableOptions(_)
SelectableOptions(texts) ==
    IF texts = <<>> THEN <<>>
    ELSE LET t == Head(texts) IN
         IF t # <<>> /\ Lower(Strip(t)) \notin PLACEHOLDER_OPTIONS
         THEN <<Strip(t)>> \o SelectableOptions(Tail(texts))
         ELSE SelectableOptions(Tail(texts))

\* "options[:n]"
FirstN(seq, n) == SubSeq(seq, 1, IF Len(seq) < n THEN Len(seq) ELSE n)

\* f"{label} Options: {', '.join(options[:n])}"
OptionsQuestion(label, options, n) ==
    label \o <<" ","O","p","t","i","o","n","s",":"," ">>
          \o Join(FirstN(options, n), <<",", " ">>)

\* "choice.lower() in opt_text.lower() or opt_text.lower() in choice.lower()"
FuzzyMatch(choice, opt) ==
    Contains(Lower(opt), Lower(choice)) \/ Contains(Lower(choice), Lower(opt))

\* Dropdown.
FillSelect(f, run) ==
    LET options == SelectableOptions(f.options)
        r == GetAnswerWithRetry(OptionsQuestion(f.label, options, 8), "text", run)
        hits == {i \in 1..Len(options) : FuzzyMatch(r.answer, options[i])}
    IN  IF hits = {} THEN Handled(f, 0, r.calls)
        ELSE LET first == CHOOSE i \in hits : \A j \in hits : i <= j
             IN  Handled([f EXCEPT !.value = options[first], !.touched = TRUE],
                         1, r.calls)

\* How the page answers the interactions with one control: both click() and
\* check() work, click() raises, or both raise.
Interactions == {"ok", "clickFails", "bothFail"}

RECURSIVE StripAll(_)
StripAll(texts) ==
    IF texts = <<>> THEN <<>> ELSE <<Strip(Head(texts))>> \o StripAll(Tail(texts))

\* Radio group.  The loop clicks the first option that contains the choice
\* and whose click() or check() works; `selected` is not assigned by the
\* loop, so the first radio is clicked afterwards whenever the group is not
\* empty.
FillRadioGroup(f, run, interaction) ==
    LET options == StripAll(f.options)
        r == GetAnswerWithRetry(OptionsQuestion(f.label, options, 5), "text", run)
        hits == {i \in 1..Len(options) : Contains(Lower(options[i]), Lower(r.answer))}
        looped == IF hits # {} /\ interaction # "bothFail"
                  THEN [f EXCEPT !.value = options[CHOOSE i \in hits : \A j \in hits : i <= j],
                                 !.touched = TRUE]
                  ELSE f
        after == IF Len(options) > 0 /\ interaction = "ok"
                 THEN [looped EXCEPT !.value = options[1], !.touched = TRUE]
                 ELSE looped
    IN  Handled(after, 0, r.calls)

\* f"Should I check this checkbox: {label}?"
CheckboxQuestion(label) ==
    <<"S","h","o","u","l","d"," ","I"," ","c","h","e","c","k"," ","t","h","i","s"," ",
      "c","h","e","c","k","b","o","x",":"," ">> \o label \o <<"?">>

\* Checkbox.
FillCheckbox(f, run, interaction) ==
    LET consent == ContainsAny(Lower(f.label), CONSENT_KEYWORDS)
        r == GetAnswerWithRetry(CheckboxQuestion(f.label), "boolean", run)
        should_check == IF consent THEN TRUE
                        ELSE Contains(Lower(r.answer), <<"y","e","s">>)
        calls == IF consent THEN 0 ELSE r.calls
    IN  IF should_check /\ ~f.checked /\ interaction # "bothFail"
        THEN Handled([f EXCEPT !.checked = TRUE, !.touched = TRUE], 0, calls)
        ELSE Handled(f, 0, calls)

\* The order in which _fill_modal_fields visits the controls: text inputs,
\* dropdowns, radio groups, checkboxes (file inputs are left to
\* _upload_resume), each kind in document order.
RECURSIVE IndicesOfKind(_, _, _)
IndicesOfKind(fs, kind, i) ==
    IF i > Len(fs) THEN <<>>
    ELSE (IF fs[i].kind = kind THEN <<i>> ELSE <<>>) \o IndicesOfKind(fs, kind, i + 1)

FillOrder(fs) ==
    IndicesOfKind(fs, "text", 1) \o IndicesOfKind(fs, "select", 1)
        \o IndicesOfKind(fs, "radio", 1) \o IndicesOfKind(fs, "checkbox", 1)

\* One control handled by the fill pass, by kind.
FillControl(f, run, interaction) ==
    CASE f.kind = "text" -> FillTextInput(f, run)
      [] f.kind = "select" -> FillSelect(f, run)
      [] f.kind = "radio" -> FillRadioGroup(f, run, interaction)
      [] f.kind = "checkbox" -> FillCheckbox(f, run, interaction)

\* An upload step that sets the resume on every file input.
UploadResume_Again(fs, uploadOk) ==
    [i \in 1..Len(fs) |-> IF fs[i].kind = "file"
                          THEN [fs[i] EXCEPT !.files = 1, !.touched = TRUE]
                          ELSE fs[i]]

\* An upload step that attaches nothing.
UploadResume_Never(fs, uploadOk) == fs

\* _upload_resume(modal): every file input without a file gets the resume;
\* when set_input_files raises (uploadOk = FALSE) the exception is caught
\* and the remaining file inputs are left alone.
RECURSIVE UploadFrom(_, _, _)
UploadFrom(fs, i, uploadOk) ==
    IF i > Len(fs) THEN fs
    ELSE IF fs[i].kind # "file" \/ fs[i].files > 0 THEN UploadFrom(fs, i + 1, uploadOk)
    ELSE IF ~uploadOk THEN fs
    ELSE UploadFrom([fs EXCEPT ![i].files = 1, ![i].touched = TRUE], i + 1, uploadOk)

UploadResume(fs, uploadOk) == UploadFrom(fs, 1, uploadOk)

----------------------------------------------------------------------------
(* The host page: what the modal can show *)

Affordance == {"absent", "disabled", "enabled"}

\* The submit, next and review buttons of the modal.
ButtonStates == [submit : Affordance, next : Affordance, review : Affordance]

NoButtons == [submit |-> "absent", next |-> "absent", review |-> "absent"]

TextInput(label, value) == Control("text", label, value, FALSE, 0, <<>>)

FileInput(label, files) == Control("file", label, <<>>, FALSE, files, <<>>)

Checkbox(label, checked) == Control("checkbox", label, <<>>, checked, 0, <<>>)

Select(label, options) == Control("select", label, <<>>, FALSE, 0, options)

RadioGroup(label, options) == Control("radio", label, <<>>, FALSE, 0, options)

L_Phone == <<"P","h","o","n","e">>

L_FilterBy == <<"F","i","l","t","e","r"," ","B","y">>

L_Agree == <<"I"," ","a","g","r","e","e">>

L_Remote == <<"R","e","m","o","t","e">>

L_Resume == <<"R","e","s","u","m","e">>

L_Visa == <<"V","i","s","a">>

L_Salary == <<"S","a","l","a","r","y">>

L_CGPA == <<"E","n","t","e","r"," ","C","G","P","A">>

YesNoOptions == << <<"S","e","l","e","c","t">>, <<"Y","e","s">>, <<"N","o">> >>

\* The control lists a page of the modal may hold.
FieldSets ==
    { <<>>,
      <<TextInput(L_Phone, <<>>)>>,
      <<TextInput(L_Phone, <<"7">>)>>,
      <<TextInput(L_Phone, Filler(PREFILLED_MAX_LEN - 1))>>,
      <<TextInput(L_Phone, Filler(PREFILLED_MAX_LEN))>>,
      <<TextInput(L_FilterBy, <<>>)>>,
      <<LabelledFor(TextInput(L_Phone, <<>>))>>,
      <<FileInput(L_Resume, 0)>>,
      <<FileInput(L_Resume, 1)>>,
      <<FileInput(L_FilterBy, 0)>>,
      <<Checkbox(L_Agree, FALSE)>>,
      <<Checkbox(L_Remote, FALSE)>>,
      <<Checkbox(L_FilterBy, FALSE)>>,
      <<Select(L_Visa, YesNoOptions)>>,
      <<Select(L_FilterBy, YesNoOptions)>>,
      <<Select(L_Agree, YesNoOptions)>>,
      <<RadioGroup(L_Visa, Tail(YesNoOptions))>>,
      <<RadioGroup(L_FilterBy, Tail(YesNoOptions))>>,
      <<Checkbox(L_Remote, FALSE), TextInput(L_Phone, <<>>), FileInput(L_Resume, 0)>> }

\* The host site of a run fixes what its pages can show.  A "navigation"
\* site shows every combination of buttons over pages with one consent
\* checkbox, with or without error markers; a "forms" site shows every
\* control list of FieldSets under a few button combinations and no error
\* markers; a
\* "progress" site shows the consent checkbox under buttons that are there
\* or not, with or without error markers; a "statistics" site shows text
\* inputs and dropdowns under the button combinations of a "forms" site,
\* with or without error markers, and its query for them may raise.
Sites == {"navigation", "forms", "progress", "statistics"}

SiteButtons(s) ==
    IF s = "navigation" THEN ButtonStates
    ELSE IF s = "progress"
    THEN [submit : {"absent", "enabled"}, next : {"disabled", "enabled"},
          review : {"absent", "enabled"}]
    ELSE { NoButtons,
           [NoButtons EXCEPT !.submit = "enabled"],
           [NoButtons EXCEPT !.next = "enabled"],
           [NoButtons EXCEPT !.review = "enabled"] }

SiteFieldSets(s) ==
    IF s \in {"navigation", "progress"} THEN { <<Checkbox(L_Agree, FALSE)>> }
    ELSE IF s = "statistics"
    THEN { <<TextInput(L_Phone, <<>>)>>, <<TextInput(L_Phone, <<"7">>)>>,
           <<TextInput(L_FilterBy, <<>>)>>, <<Select(L_Visa, YesNoOptions)>> }
    ELSE FieldSets

\* What the query for error markers can come to: no marker, markers, or the
\* query raising.
SiteMarkers(s) ==
    IF s = "statistics" THEN {"none", "markers", "raises"}
    ELSE IF s \in {"navigation", "progress"} THEN {"none", "markers"}
    ELSE {"none"}

\* The sets of modal selectors that can match at one pass.
SitePresence(s) == { {}, 1..3 }

\* The per-run application limit (config.yaml limit.daily_applications).
SiteLimit(s) == IF s = "navigation" THEN MaxJobs ELSE 1

\* What the answer service does over the calls made for one control: it
\* answers at once; it raises, then returns a blank, then a long answer; it
\* answers "No"; or it fails every time.
ServiceRuns ==
    { <<Returns(<<"Y","e","s">>), Raises, Raises>>,
      <<Raises, Returns(<<" ">>), Returns(Filler(PREFILLED_MAX_LEN))>>,
      <<Returns(<<"N","o">>), Raises, Raises>>,
      <<Raises, Returns(<<>>), Raises>> }

----------------------------------------------------------------------------
(* State *)

VARIABLES
    site,                \* the host site of this run (fixed)
    pc,                  \* where the controller is
    job,                 \* index of the job being (or last) attempted; 0 before the first
    outcome,             \* job -> "Pending", "InProgress", "Submitted", "Aborted", "TimedOut"
    result,              \* what _handle_application_modal returned: "none", "true", "false"
    stats,               \* self.stats
    page_num,            \* _handle_application_modal: page_num
    step,                \* _handle_application_modal: step
    consecutive_errors,  \* _handle_application_modal: consecutive_errors
    attempt,             \* _get_modal_with_retry: passes made
    modal,               \* index of the selector that matched; 0 when none
    buttons,             \* the page: the buttons of the modal
    fields,              \* the page: the controls of the modal
    fillPos,             \* the fill pass: position in FillOrder(fields)
    sleeps,              \* history: RETRY_DELAY waits of the current modal location
    checks,              \* history: result of every ErrorCheck of the current attempt
    stepOps,             \* history: what the current step has done, in order
    seen,                \* history: the buttons and the error markers as the current
                         \* step's queries found them
    fillPasses,          \* history: fill passes started in the current attempt
    lastFill,            \* history: the control last handled, before and after
                         \* (pos = 0: the controls before and after the upload)
    baseStats,           \* history: stats when the current attempt started
    probe,               \* a single call of one function of the filler: its input and result
    scenario,            \* history: how far the attempt has followed the 3-page form
    page,                \* the browser page: "closed", "loaded", "mounted"; "search" (job search), "server" (API)
    localStorage,        \* window.localStorage: the items token and user
    provider,            \* AuthProvider: user, loading, isAuthenticated
    pending,             \* the /auth/me requests of checkAuth in flight
    settled,             \* history: the last checkAuth that got its answer
    search,              \* the job search App: role, country, limit, jobs, loading, fetch
    profiles,            \* the Profile collection
    handlers             \* the /api/profile requests being served

vars == <<site, pc, job, outcome, result, stats, page_num, step, consecutive_errors,
          attempt, modal, buttons, fields, fillPos, sleeps, checks, stepOps,
          seen, fillPasses, lastFill, baseStats, probe, scenario,
          page, localStorage, provider, pending, settled, search, profiles,
          handlers>>

\* The variables of the controller, which a single call and the web
\* application leave alone.
controller == <<site, pc, job, outcome, result, stats, page_num, step,
                consecutive_errors, attempt, modal, buttons, fields, fillPos,
                sleeps, checks, stepOps, seen, fillPasses, lastFill, baseStats,
                scenario>>

Terminal == {"Submitted", "Aborted", "TimedOut"}

NoFill == [pos |-> 0, before |-> <<>>, after |-> <<>>, filled |-> 0, calls |-> 0,
           scopes |-> {}]

NothingSeen == [submit |-> "unseen", next |-> "unseen", review |-> "unseen",
                markers |-> "unseen"]

ZeroStats == [applications_submitted |-> 0, applications_failed |-> 0,
              fields_filled |-> 0, errors_encountered |-> 0]

\* No function is being called on its own.
NoProbe == [op |-> "none"]

\* The 3-page form: page 1 holds one dropdown with the options Yes and No,
\* page 2 a file input without a file, page 3 an enabled submit button; the
\* answer service answers "Yes", the upload works, no page shows an error
\* marker and pages 1 and 2 offer Next throughout.  phase is the page of the
\* form the attempt is on while the host has behaved this way so far, 0
\* otherwise; uploads and chosen record what the filler did on the way.
ScenarioOff == [phase |-> 0, uploads |-> 0, chosen |-> <<>>]

NextOnly == [NoButtons EXCEPT !.next = "enabled"]

SubmitOnly == [NoButtons EXCEPT !.submit = "enabled"]

\* The modal opens on a page.
ScenarioOpened(b, fs) ==
    IF b = NextOnly /\ fs = <<Select(L_Visa, YesNoOptions)>>
    THEN [ScenarioOff EXCEPT !.phase = 1]
    ELSE ScenarioOff

\* A click is followed by the next page.
ScenarioRendered(sc, b, fs) ==
    IF sc.phase = 1 /\ b = NextOnly /\ fs = <<FileInput(L_Resume, 0)>>
    THEN [sc EXCEPT !.phase = 2]
    ELSE IF sc.phase = 2 /\ b = SubmitOnly /\ fs = <<>>
    THEN [sc EXCEPT !.phase = 3]
    ELSE ScenarioOff

\* Files attached by one call of _upload_resume.
Attached(before, after) ==
    Cardinality({i \in 1..Len(before) : before[i].files = 0 /\ after[i].files > 0})

ScenarioUploaded(sc, before, after, uploadOk) ==
    IF sc.phase = 0 THEN sc
    ELSE IF ~uploadOk /\ \E i \in 1..Len(before) :
                            before[i].kind = "file" /\ before[i].files = 0
    THEN ScenarioOff
    ELSE [sc EXCEPT !.uploads = @ + Attached(before, after)]

\* A control was handled with the answer service behaving as run.
ScenarioFilled(sc, run, after) ==
    IF sc.phase = 0 THEN sc
    ELSE IF run[1] = Returns(<<"Y","e","s">>) THEN [sc EXCEPT !.chosen = after.value]
    ELSE ScenarioOff

\* The page keeps or changes its buttons, or shows error markers.
ScenarioKept(sc, kept) == IF kept THEN sc ELSE ScenarioOff

\* The web application is not running.
Offline ==
    /\ page = "closed"
    /\ localStorage = [token |-> <<>>, user |-> <<>>]
    /\ provider = [user |-> <<>>, loading |-> TRUE, isAuthenticated |-> FALSE]
    /\ pending = <<>>
    /\ settled = [outcome |-> "none", stale |-> FALSE]
    /\ search = [role |-> "", country |-> "India", limit |-> 20, jobs |-> <<>>,
                 loading |-> FALSE, fetch |-> "idle"]
    /\ profiles = {}
    /\ handlers = <<>>

InitAt(s) ==
    /\ scenario = ScenarioOff
    /\ probe = NoProbe
    /\ site = s
    /\ pc = "Idle"
    /\ job = 0
    /\ outcome = [j \in 1..MaxJobs |-> "Pending"]
    /\ result = "none"
    /\ stats = ZeroStats
    /\ page_num = 0
    /\ step = 0
    /\ consecutive_errors = 0
    /\ attempt = 0
    /\ modal = 0
    /\ buttons = NoButtons
    /\ fields = <<>>
    /\ fillPos = 0
    /\ sleeps = 0
    /\ checks = <<>>
    /\ stepOps = <<>>
    /\ seen = NothingSeen
    /\ fillPasses = 0
    /\ lastFill = NoFill
    /\ baseStats = ZeroStats

Init == InitAt("navigation") /\ Offline

FormsInit == InitAt("forms") /\ Offline

ProgressInit == InitAt("progress") /\ Offline

StatisticsInit == InitAt("statistics") /\ Offline

----------------------------------------------------------------------------
(* self.stats *)

\* A failure counted twice, once by the handler and once more.
CountFailure_Twice(s) == [s EXCEPT !.applications_failed = @ + 2]

\* "self.stats['applications_failed'] += 1"
CountFailure(s) == [s EXCEPT !.applications_failed = @ + 1]

\* "self.stats['applications_submitted'] += 1"
CountSubmitted(s) == [s EXCEPT !.applications_submitted = @ + 1]

\* "self.stats['errors_encountered'] += 1"
CountError(s) == [s EXCEPT !.errors_encountered = @ + 1]

\* What the caller of the handler adds to the statistics for a result:
\* an application that was submitted is counted as submitted; one that
\* failed has been counted by the handler already.
ResultStats(s, r) == IF r = "true" THEN CountSubmitted(s) ELSE s

\* What the handler adds to the statistics when it runs out of steps.
TimeoutStats(s) == CountFailure(s)

\* What the error check of a step adds to the statistics.
ErrorStats(s, has_errors) == IF has_errors THEN CountError(s) ELSE s

\* A count that goes up for every control handled, written or not.
CountFilled_Always(s, n) == [s EXCEPT !.fields_filled = @ + 1]

\* "stats['fields_filled'] += 1", n times
CountFilled(s, n) == [s EXCEPT !.fields_filled = @ + n]

----------------------------------------------------------------------------
(* apply_to_jobs: the job loop *)

\* A controller that does not await the handler before the next job.
CanStartJob_NoAwait == job < SiteLimit(site)

\* The next job may be started: the controller is between jobs and the batch
\* is not exhausted.
CanStartJob == pc = "Idle" /\ job < SiteLimit(site)

\* "For each job: click job card, find Easy Apply, click,
\* _handle_application_modal()": the handler starts with page_num = 1,
\* step = 0, consecutive_errors = 0 and goes to locate the modal.
StartJob ==
    /\ CanStartJob
    /\ job' = job + 1
    /\ outcome' = [outcome EXCEPT ![job + 1] = "InProgress"]
    /\ result' = "none"
    /\ page_num' = 1
    /\ step' = 0
    /\ consecutive_errors' = 0
    /\ attempt' = 0
    /\ modal' = 0
    /\ buttons' = NoButtons
    /\ fields' = <<>>
    /\ fillPos' = 0
    /\ sleeps' = 0
    /\ checks' = <<>>
    /\ stepOps' = <<>>
    /\ seen' = NothingSeen
    /\ fillPasses' = 0
    /\ lastFill' = NoFill
    /\ baseStats' = stats
    /\ pc' = "Locate"
    /\ scenario' = ScenarioOff
    /\ UNCHANGED <<page, localStorage, provider, pending, settled, search,
                   profiles, handlers>>
    /\ UNCHANGED <<probe, site, stats>>

\* The caller takes the handler's result: a submitted application is
\* counted, and the loop goes on to the next job whatever the result.
RecordResult ==
    /\ pc = "Returned"
    /\ stats' = ResultStats(stats, result)
    /\ pc' = "Idle"
    \* the handler's locals and its modal are gone
    /\ page_num' = 0
    /\ step' = 0
    /\ consecutive_errors' = 0
    /\ attempt' = 0
    /\ modal' = 0
    /\ buttons' = NoButtons
    /\ fields' = <<>>
    /\ fillPos' = 0
    /\ sleeps' = 0
    /\ checks' = <<>>
    /\ stepOps' = <<>>
    /\ seen' = NothingSeen
    /\ fillPasses' = 0
    /\ lastFill' = NoFill
    /\ UNCHANGED <<page, localStorage, provider, pending, settled, search,
                   profiles, handlers>>
    /\ UNCHANGED <<probe, scenario, site, job, outcome, result, baseStats>>

----------------------------------------------------------------------------
(* _get_modal_with_retry *)

\* One pass over MODAL_SELECTORS against the selectors that match now:
\* the first selector in list order that matches, 0 when none does.
FirstMatch(present) ==
    IF present = {} THEN 0
    ELSE CHOOSE i \in present : \A j \in present : i <= j

\* A locator that waits after every pass that missed, the last included.
SleepsAfterMiss_Always(passNo) == TRUE

\* "if attempt < self.MAX_RETRIES - 1: sleep", attempt being the 0-based
\* number of the pass that just missed.
SleepsAfterMiss(passNo) == passNo < MAX_RETRIES - 1

\* A locator that gives up after its first pass.
PassesExhausted_One(n) == n >= 1

\* "for attempt in range(self.MAX_RETRIES)": no pass is left after n passes.
PassesExhausted(n) == n >= MAX_RETRIES

\* _get_modal_with_retry as one call, against the selectors that match at
\* each pass (presences[k] at pass k): the selector that matched (0 for
\* None), the passes made and the RETRY_DELAY waits made.
RECURSIVE GetModalFrom(_, _, _)
GetModalFrom(presences, passNo, waits) ==
    IF PassesExhausted(passNo)
    THEN [modal |-> 0, passes |-> passNo, sleeps |-> waits]
    ELSE LET hit == FirstMatch(presences[passNo + 1]) IN
         IF hit # 0
         THEN [modal |-> hit, passes |-> passNo + 1, sleeps |-> waits]
         ELSE GetModalFrom(presences, passNo + 1,
                           IF SleepsAfterMiss(passNo) THEN waits + 1 ELSE waits)

GetModalWithRetry(presences) == GetModalFrom(presences, 0, 0)

\* A pass of the retry loop.  On a hit the modal is returned and the page it
\* shows is whatever the host site rendered.
LocatePass ==
    /\ pc = "Locate"
    /\ ~PassesExhausted(attempt)
    /\ \E present \in SitePresence(site) :
         LET hit == FirstMatch(present) IN
         /\ attempt' = attempt + 1
         /\ modal' = hit
         /\ IF hit # 0
            THEN /\ pc' = "Loop"
                 /\ sleeps' = sleeps
                 /\ \E b \in SiteButtons(site), fs \in SiteFieldSets(site) :
                      /\ buttons' = b
                      /\ fields' = fs
                      /\ scenario' = ScenarioOpened(b, fs)
            ELSE /\ pc' = IF PassesExhausted(attempt + 1) THEN "NotFound" ELSE "Locate"
                 /\ sleeps' = IF SleepsAfterMiss(attempt) THEN sleeps + 1 ELSE sleeps
                 /\ UNCHANGED <<buttons, fields, scenario>>
    /\ UNCHANGED <<page, localStorage, provider, pending, settled, search,
                   profiles, handlers>>
    /\ UNCHANGED <<probe, site, job, outcome, result, stats, page_num, step, consecutive_errors,
                   fillPos, checks, stepOps, seen, fillPasses, lastFill, baseStats>>

\* _get_modal_with_retry returned None: the application fails and the
\* handler returns False.
ModalNotFound ==
    /\ pc = "NotFound"
    /\ result' = "false"
    /\ outcome' = [outcome EXCEPT ![job] = "Aborted"]
    /\ stats' = CountFailure(stats)
    /\ pc' = "Returned"
    /\ UNCHANGED <<page, localStorage, provider, pending, settled, search,
                   profiles, handlers>>
    /\ UNCHANGED <<probe, scenario, site, job, page_num, step, consecutive_errors, attempt, modal, buttons,
                   fields, fillPos, sleeps, checks, stepOps, seen, fillPasses,
                   lastFill, baseStats>>

----------------------------------------------------------------------------
(* _handle_application_modal: the navigation loop *)

\* A button that counts as clickable as soon as it is there.
Clickable_IgnoresEnabled(state) == state # "absent"

\* "IF btn exists AND is_enabled"
Clickable(state) == state = "enabled"

\* A loop that runs one step over its budget.
WithinBudget_OneMore(n) == n <= MAX_STEPS

\* "WHILE step < MAX_STEPS"
WithinBudget(n) == n < MAX_STEPS

\* "step += 1"
NextStep(n) == n + 1

\* "WHILE step < MAX_STEPS: step += 1", then the check for the SUBMIT button
\* (highest priority): an enabled submit button is clicked and the handler
\* returns True; otherwise the step goes on to the resume upload.
BeginStep ==
    /\ pc = "Loop"
    /\ WithinBudget(step)
    /\ step' = NextStep(step)
    /\ seen' = [NothingSeen EXCEPT !.submit = buttons.submit]
    \* the locals of _get_modal_with_retry are gone
    /\ attempt' = 0
    /\ sleeps' = 0
    /\ IF Clickable(buttons.submit)
       THEN /\ stepOps' = <<"ClickSubmit">>
            /\ result' = "true"
            /\ outcome' = [outcome EXCEPT ![job] = "Submitted"]
            /\ pc' = "Returned"
       ELSE /\ stepOps' = <<>>
            /\ pc' = "Upload"
            /\ UNCHANGED <<result, outcome>>
    /\ UNCHANGED <<page, localStorage, provider, pending, settled, search,
                   profiles, handlers>>
    /\ UNCHANGED <<probe, scenario, site, job, stats, page_num, consecutive_errors, modal, buttons,
                   fields, fillPos, checks, fillPasses, lastFill, baseStats>>

\* The loop ran out of steps: "Timeout", the application fails and the
\* handler returns False.
Timeout ==
    /\ pc = "Loop"
    /\ ~WithinBudget(step)
    /\ result' = "false"
    /\ outcome' = [outcome EXCEPT ![job] = "TimedOut"]
    /\ stats' = TimeoutStats(stats)
    /\ pc' = "Returned"
    /\ UNCHANGED <<page, localStorage, provider, pending, settled, search,
                   profiles, handlers>>
    /\ UNCHANGED <<probe, scenario, site, job, page_num, step, consecutive_errors, attempt, modal, buttons,
                   fields, fillPos, sleeps, checks, stepOps, seen, fillPasses,
                   lastFill, baseStats>>

\* "upload_resume(modal)", after which the fill pass starts.
Upload ==
    /\ pc = "Upload"
    /\ \E uploadOk \in BOOLEAN :
         /\ fields' = UploadResume(fields, uploadOk)
         /\ scenario' = ScenarioUploaded(scenario, fields, fields', uploadOk)
    /\ lastFill' = [NoFill EXCEPT !.before = fields, !.after = fields']
    /\ stepOps' = Append(stepOps, "Upload")
    /\ fillPos' = 1
    /\ fillPasses' = fillPasses + 1
    /\ pc' = "Fill"
    /\ UNCHANGED <<page, localStorage, provider, pending, settled, search,
                   profiles, handlers>>
    /\ UNCHANGED <<probe, site, job, outcome, result, stats, page_num, step, consecutive_errors,
                   attempt, modal, buttons, sleeps, checks, seen, baseStats>>

\* _fill_modal_fields: the next control in the filler's order is handled.
FillField ==
    /\ pc = "Fill"
    /\ fillPos <= Len(FillOrder(fields))
    /\ \E run \in ServiceRuns, interaction \in Interactions :
         LET i == FillOrder(fields)[fillPos]
             h == FillControl(fields[i], run, interaction)
         IN  /\ fields' = [fields EXCEPT ![i] = h.field]
             /\ stats' = CountFilled(stats, h.filled)
             /\ lastFill' = [pos |-> i, before |-> fields[i], after |-> h.field,
                             filled |-> h.filled, calls |-> h.calls,
                             scopes |-> QueryScopes(fields[i])]
             /\ scenario' = ScenarioFilled(scenario, run, h.field)
    /\ fillPos' = fillPos + 1
    /\ UNCHANGED <<page, localStorage, provider, pending, settled, search,
                   profiles, handlers>>
    /\ UNCHANGED <<probe, site, pc, job, outcome, result, page_num, step, consecutive_errors,
                   attempt, modal, buttons, sleeps, checks, stepOps, seen,
                   fillPasses, baseStats>>

\* _fill_modal_fields returns.  The host page reacts to the input and change
\* events it was sent: its buttons may be in any state afterwards.
EndFill ==
    /\ pc = "Fill"
    /\ fillPos > Len(FillOrder(fields))
    /\ \E b \in SiteButtons(site) : buttons' = b
    /\ scenario' = ScenarioKept(scenario, buttons' = buttons)
    /\ lastFill' = NoFill
    /\ stepOps' = Append(stepOps, "Fill")
    /\ pc' = "ErrorCheck"
    /\ UNCHANGED <<page, localStorage, provider, pending, settled, search,
                   profiles, handlers>>
    /\ UNCHANGED <<probe, site, job, outcome, result, stats, page_num, step, consecutive_errors,
                   attempt, modal, fields, fillPos, sleeps, checks, seen,
                   fillPasses, baseStats>>

\* An error check that takes a raising query for an error.
CheckForErrors_RaiseIsError(found) == found # "none"

\* _check_for_errors(modal): True when the query finds error markers; False
\* when it finds none or raises.
CheckForErrors(found) == found = "markers"

\* An error count that is never reset.
CountErrors_NoReset(count, has_errors) == IF has_errors THEN count + 1 ELSE count

\* "consecutive_errors += 1" on an error, "consecutive_errors = 0" otherwise.
CountErrors(count, has_errors) == IF has_errors THEN count + 1 ELSE 0

\* An abort that waits for a fourth consecutive error.
TooManyErrors_Four(count) == count >= MAX_CONSECUTIVE_ERRORS + 1

\* "if consecutive_errors >= 3"
TooManyErrors(count) == count >= MAX_CONSECUTIVE_ERRORS

\* The error check of a step and the consecutive-error tracking.
ErrorCheck ==
    /\ pc = "ErrorCheck"
    /\ \E found \in SiteMarkers(site) :
         LET has_errors == CheckForErrors(found)
             count == CountErrors(consecutive_errors, has_errors)
             abort == has_errors /\ TooManyErrors(count)
         IN  /\ consecutive_errors' = count
             /\ checks' = Append(checks, has_errors)
             /\ seen' = [seen EXCEPT !.markers = found]
             /\ scenario' = ScenarioKept(scenario, ~has_errors)
             /\ stats' = IF abort THEN CountFailure(ErrorStats(stats, has_errors))
                          ELSE ErrorStats(stats, has_errors)
             /\ IF abort
                THEN /\ result' = "false"
                     /\ outcome' = [outcome EXCEPT ![job] = "Aborted"]
                     /\ pc' = "Returned"
                ELSE /\ pc' = "Navigate"
                     /\ UNCHANGED <<result, outcome>>
    /\ stepOps' = Append(stepOps, "ErrorCheck")
    /\ UNCHANGED <<page, localStorage, provider, pending, settled, search,
                   profiles, handlers>>
    /\ UNCHANGED <<probe, site, job, page_num, step, attempt, modal, buttons, fields, fillPos,
                   sleeps, fillPasses, lastFill, baseStats>>

\* A Next click that does not count the page.
ClickNext_SamePage ==
    /\ pc = "Navigate"
    /\ Clickable(buttons.next)
    /\ seen' = [seen EXCEPT !.next = buttons.next]
    /\ stepOps' = Append(stepOps, "ClickNext")
    /\ pc' = "Settle"
    /\ UNCHANGED <<page, localStorage, provider, pending, settled, search,
                   profiles, handlers>>
    /\ UNCHANGED <<probe, scenario, site, job, outcome, result, stats, page_num, step, consecutive_errors, attempt,
                   modal, buttons, fields, fillPos, sleeps, checks, fillPasses,
                   lastFill, baseStats>>

\* "IF next_btn exists AND is_enabled: page_num += 1; click; CONTINUE"
ClickNext ==
    /\ pc = "Navigate"
    /\ Clickable(buttons.next)
    /\ seen' = [seen EXCEPT !.next = buttons.next]
    /\ page_num' = page_num + 1
    /\ stepOps' = Append(stepOps, "ClickNext")
    /\ pc' = "Settle"
    /\ UNCHANGED <<page, localStorage, provider, pending, settled, search,
                   profiles, handlers>>
    /\ UNCHANGED <<probe, scenario, site, job, outcome, result, stats, step, consecutive_errors, attempt,
                   modal, buttons, fields, fillPos, sleeps, checks, fillPasses,
                   lastFill, baseStats>>

\* A Review click that does not give way to an enabled Next button.
ClickReview_First ==
    /\ pc = "Navigate"
    /\ Clickable(buttons.review)
    /\ seen' = [seen EXCEPT !.next = buttons.next, !.review = buttons.review]
    /\ stepOps' = Append(stepOps, "ClickReview")
    /\ pc' = "Settle"
    /\ UNCHANGED <<page, localStorage, provider, pending, settled, search,
                   profiles, handlers>>
    /\ UNCHANGED <<probe, scenario, site, job, outcome, result, stats, page_num, step, consecutive_errors,
                   attempt, modal, buttons, fields, fillPos, sleeps, checks,
                   fillPasses, lastFill, baseStats>>

\* "IF review_btn exists AND is_enabled: click; CONTINUE"
ClickReview ==
    /\ pc = "Navigate"
    /\ ~Clickable(buttons.next)
    /\ Clickable(buttons.review)
    /\ seen' = [seen EXCEPT !.next = buttons.next, !.review = buttons.review]
    /\ stepOps' = Append(stepOps, "ClickReview")
    /\ pc' = "Settle"
    /\ UNCHANGED <<page, localStorage, provider, pending, settled, search,
                   profiles, handlers>>
    /\ UNCHANGED <<probe, scenario, site, job, outcome, result, stats, page_num, step, consecutive_errors,
                   attempt, modal, buttons, fields, fillPos, sleeps, checks,
                   fillPasses, lastFill, baseStats>>

\* "await asyncio.sleep(2); continue" after a click on Next or Review: the
\* host page renders whatever it shows next, and the step is over.
Settle ==
    /\ pc = "Settle"
    /\ \E b \in SiteButtons(site), fs \in SiteFieldSets(site) :
         /\ buttons' = b
         /\ fields' = fs
         /\ scenario' = ScenarioRendered(scenario, b, fs)
    /\ stepOps' = <<>>
    /\ seen' = NothingSeen
    /\ pc' = "Loop"
    /\ UNCHANGED <<page, localStorage, provider, pending, settled, search,
                   profiles, handlers>>
    /\ UNCHANGED <<probe, site, job, outcome, result, stats, page_num, step, consecutive_errors,
                   attempt, modal, fillPos, sleeps, checks, fillPasses, lastFill,
                   baseStats>>

\* "No actionable buttons": the loop goes round on the same page.
NoButton ==
    /\ pc = "Navigate"
    /\ ~Clickable(buttons.next)
    /\ ~Clickable(buttons.review)
    /\ seen' = [seen EXCEPT !.next = buttons.next, !.review = buttons.review]
    /\ stepOps' = Append(stepOps, "NoButton")
    /\ pc' = "Loop"
    /\ UNCHANGED <<page, localStorage, provider, pending, settled, search,
                   profiles, handlers>>
    /\ UNCHANGED <<probe, scenario, site, job, outcome, result, stats, page_num, step, consecutive_errors,
                   attempt, modal, buttons, fields, fillPos, sleeps, checks,
                   fillPasses, lastFill, baseStats>>

----------------------------------------------------------------------------
(* Specifications *)

Next ==
    \/ StartJob
    \/ RecordResult
    \/ LocatePass
    \/ ModalNotFound
    \/ BeginStep
    \/ Timeout
    \/ Upload
    \/ FillField
    \/ EndFill
    \/ ErrorCheck
    \/ ClickNext
    \/ ClickReview
    \/ Settle
    \/ NoButton

Spec == Init /\ [][Next]_vars

\* The same controller on a site of forms.
FormsSpec == FormsInit /\ [][Next]_vars

\* The same controller on a site of text inputs, dropdowns and error markers.
StatisticsSpec == StatisticsInit /\ [][Next]_vars

\* The controller is one thread that runs until the batch is done: every
\* await returns.
FairSpec == ProgressInit /\ [][Next]_vars /\ WF_vars(Next)

----------------------------------------------------------------------------
(* The web application: the API server *)

\* Days a token stays valid: expiresIn '7d'.
TOKEN_DAYS == 7

\* A value of the environment or of a request that may be missing is <<>>
\* when missing and <<v>> when set to v.  A token is a record: form "jwt"
\* with the payload's userId, the key that signed it and the day it expires
\* on; form "malformed" for a text that is no JWT; form "empty" for ''.

\* generateToken: jwt.sign({ userId }, process.env.JWT_SECRET || default,
\* { expiresIn: '7d' }) on day `now`.  An unset or empty JWT_SECRET is falsy.
generateToken(userId, JWT_SECRET, now) ==
    LET secret == IF JWT_SECRET # <<>> /\ JWT_SECRET[1] # ""
                  THEN JWT_SECRET[1]
                  ELSE "your-secret-key-change-in-production"
    IN  [form |-> "jwt", userId |-> userId, key |-> secret,
         exp |-> now + TOKEN_DAYS]

\* A middleware that calls next() for every request carrying a token.
authenticate_Unverified(req, JWT_SECRET, users, now) ==
    LET h == req.authorization
        supplied == \/ h # <<>> /\ Len(h) >= 2 /\ h[2].form # "empty"
                    \/ h = <<>> /\ req.cookies # <<>>
    IN  IF supplied THEN [next |-> 1, status |-> <<>>]
        ELSE [next |-> 0, status |-> <<401>>]

\* authenticate(req, res, next): the calls of next() it makes and the
\* statuses it responds with, in order.  req.authorization is <<>> or the
\* header split at its blanks, <<scheme>> or <<scheme, token>>, the scheme a
\* text; req.cookies is <<>> or <<token>>; users.up tells whether the
\* database answers and users.ids holds the users it has.
authenticate(req, JWT_SECRET, users, now) ==
    LET h == req.authorization
        Bearer == <<"B","e","a","r","e","r">>
        none == [form |-> "none"]
        \* lines 11-20
        token ==
            IF h # <<>> /\ Len(h[1]) >= Len(Bearer)
                        /\ SubSeq(h[1], 1, Len(Bearer)) = Bearer
            THEN IF Len(h) >= 2 THEN h[2] ELSE none
            ELSE IF req.cookies # <<>> /\ req.cookies[1].form # "empty"
                 THEN req.cookies[1]
                 ELSE none
        \* jwt.verify(token, process.env.JWT_SECRET): the error it throws,
        \* "" when it returns the payload
        thrown ==
            IF \/ token.form # "jwt"
               \/ JWT_SECRET = <<>>
               \/ JWT_SECRET[1] = ""
               \/ token.key # JWT_SECRET[1]
            THEN "JsonWebTokenError"
            ELSE IF now >= token.exp THEN "TokenExpiredError"
            ELSE IF ~users.up THEN "MongooseError"
            ELSE ""
    IN  IF token.form \in {"none", "empty"}
        THEN [next |-> 0, status |-> <<401>>]
        ELSE IF thrown \in {"JsonWebTokenError", "TokenExpiredError"}
        THEN [next |-> 0, status |-> <<401>>]
        ELSE IF thrown # ""
        THEN [next |-> 0, status |-> <<500>>]
        ELSE IF token.userId \notin users.ids
        THEN [next |-> 0, status |-> <<401>>]
        ELSE [next |-> 1, status |-> <<>>]

----------------------------------------------------------------------------
(* The web application: the API client *)

\* An interceptor that clears the storage on every 401.
responseError_AnyUrl(error, storage, pathname) ==
    [localStorage |-> IF error.status = <<401>>
                      THEN [token |-> <<>>, user |-> <<>>] ELSE storage,
     href |-> <<>>,
     rejected |-> error]

\* The error handler of api.interceptors.response.  error.status is <<>>
\* when the error has no response and <<n>> for the status n; error.url is
\* <<>> when the error has no config or url, else <<text>>.  storage is
\* localStorage, its items <<>> when missing.  The result holds
\* localStorage afterwards, the address assigned to window.location.href
\* (<<>> when none) and the error the returned promise rejects with.
responseError(error, storage, pathname) ==
    LET url == IF error.url = <<>> THEN <<>> ELSE error.url[1]
        login == <<"/","a","u","t","h","/","l","o","g","i","n">>
        register == <<"/","a","u","t","h","/","r","e","g","i","s","t","e","r">>
        clears == /\ error.status = <<401>>
                  /\ ~Contains(url, login)
                  /\ ~Contains(url, register)
    IN  [localStorage |-> IF clears THEN [token |-> <<>>, user |-> <<>>]
                          ELSE storage,
         href |-> IF clears /\ pathname \notin {"/login", "/register"}
                  THEN <<"/login">> ELSE <<>>,
         rejected |-> error]

----------------------------------------------------------------------------
(* The web application: AuthProvider *)

\* checkAuth calls in flight at once.
MaxPending == 2

\* A user object is "u1" or "u2" and the token issued for it "t1" or "t2".
\* The text JSON.stringify makes of a user u is <<"json", u>>; JSON.parse
\* gives u back for it and throws on every other text, <<"text", ...>>.

\* A checkAuth that leaves loading alone when there is no token.
checkAuth_NoTokenKeepsLoading ==
    /\ page \in {"loaded", "mounted"}
    /\ page' = "mounted"
    /\ IF localStorage.token # <<>>
       THEN /\ Len(pending) < MaxPending
            /\ pending' = Append(pending, [stale |-> FALSE])
            /\ UNCHANGED <<provider, localStorage>>
       ELSE /\ provider' = [provider EXCEPT !.user = <<>>,
                                            !.isAuthenticated = FALSE]
            /\ UNCHANGED <<localStorage, pending>>
    /\ UNCHANGED <<settled, search, profiles, handlers, probe>>
    /\ UNCHANGED controller

\* checkAuth up to its await: the mount effect of AuthProvider, or a call
\* through the context.  Without a token it runs to its end.
checkAuth ==
    /\ page \in {"loaded", "mounted"}
    /\ page' = "mounted"
    /\ LET token == localStorage.token
           storedUser == localStorage.user
       IN  IF token # <<>>
           THEN /\ Len(pending) < MaxPending
                /\ IF storedUser = <<>>
                   THEN UNCHANGED <<provider, localStorage>>
                   ELSE IF storedUser[1][1] = "json"
                   THEN /\ provider' = [provider EXCEPT
                                           !.user = <<storedUser[1][2]>>,
                                           !.isAuthenticated = TRUE]
                        /\ UNCHANGED localStorage
                   ELSE /\ localStorage' = [localStorage EXCEPT !.user = <<>>]
                        /\ UNCHANGED provider
                /\ pending' = Append(pending, [stale |-> FALSE])
           ELSE /\ provider' = [user |-> <<>>, loading |-> FALSE,
                                isAuthenticated |-> FALSE]
                /\ UNCHANGED <<localStorage, pending>>
    /\ UNCHANGED <<settled, search, profiles, handlers, probe>>
    /\ UNCHANGED controller

\* checkAuth from the answer to /auth/me on: a success body with a user, a
\* body without success, a 401, another HTTP error or no response at all.
\* An error passes the response interceptor first; when that assigns
\* window.location.href the page is loaded anew once checkAuth has ended.
checkAuthResponse ==
    \E i \in 1..Len(pending),
       answer \in {"success", "unsuccessful", "401", "500", "network"},
       u \in {"u1", "u2"},
       pathname \in {"/login", "/dashboard"} :
        LET me == << <<"/","a","u","t","h","/","m","e">> >>
            status == IF answer = "401" THEN <<401>>
                      ELSE IF answer = "500" THEN <<500>> ELSE <<>>
            failed == answer \in {"401", "500", "network"}
            intercepted ==
                IF failed
                THEN responseError([status |-> status, url |-> me],
                                   localStorage, pathname)
                ELSE [localStorage |-> localStorage, href |-> <<>>]
            cleared == [token |-> <<>>, user |-> <<>>]
            signedOut == [user |-> <<>>, loading |-> FALSE,
                          isAuthenticated |-> FALSE]
        IN  /\ settled' = [outcome |-> answer, stale |-> pending[i].stale]
            /\ localStorage' =
                 IF answer = "success"
                 THEN [localStorage EXCEPT !.user = << <<"json", u>> >>]
                 ELSE IF answer \in {"unsuccessful", "401"} THEN cleared
                 ELSE intercepted.localStorage
            /\ IF intercepted.href # <<>>
               THEN /\ page' = "loaded"
                    /\ provider' = [user |-> <<>>, loading |-> TRUE,
                                    isAuthenticated |-> FALSE]
                    /\ pending' = <<>>
               ELSE /\ page' = page
                    /\ provider' =
                         IF answer = "success"
                         THEN [user |-> <<u>>, loading |-> FALSE,
                               isAuthenticated |-> TRUE]
                         ELSE IF answer \in {"unsuccessful", "401"}
                         THEN signedOut
                         ELSE [provider EXCEPT !.loading = FALSE]
                    /\ pending' = SubSeq(pending, 1, i - 1)
                                    \o SubSeq(pending, i + 1, Len(pending))
    /\ UNCHANGED <<search, profiles, handlers, probe>>
    /\ UNCHANGED controller

\* login and register, from the request to the returned result: the server
\* answers with a user and its token, with a body without success, with an
\* HTTP error, or not at all.  Every failure returns { success: false } and
\* changes nothing; the interceptor leaves a failure of these URLs alone.
signIn ==
    /\ page = "mounted"
    /\ \E url \in { <<"/","a","u","t","h","/","l","o","g","i","n">>,
                    <<"/","a","u","t","h","/","r","e","g","i","s","t","e","r">> },
          answer \in {"success", "unsuccessful", "400", "401", "500", "network"},
          u \in {"u1", "u2"} :
        LET status == IF answer = "400" THEN <<400>>
                      ELSE IF answer = "401" THEN <<401>>
                      ELSE IF answer = "500" THEN <<500>> ELSE <<>>
            token == IF u = "u1" THEN "t1" ELSE "t2"
        IN  IF answer = "success"
            THEN /\ localStorage' = [token |-> <<token>>,
                                     user |-> << <<"json", u>> >>]
                 /\ provider' = [user |-> <<u>>, loading |-> FALSE,
                                 isAuthenticated |-> TRUE]
            ELSE /\ localStorage' =
                      IF answer = "unsuccessful" THEN localStorage
                      ELSE responseError([status |-> status, url |-> <<url>>],
                                         localStorage, "/login").localStorage
                 /\ UNCHANGED provider
    /\ UNCHANGED <<page, pending, settled, search, profiles, handlers, probe>>
    /\ UNCHANGED controller

\* A logout that leaves the user in the state.
logout_KeepsUser ==
    /\ page = "mounted"
    /\ localStorage' = [token |-> <<>>, user |-> <<>>]
    /\ provider' = [provider EXCEPT !.isAuthenticated = FALSE]
    /\ pending' = [k \in 1..Len(pending) |-> [stale |-> TRUE]]
    /\ UNCHANGED <<page, settled, search, profiles, handlers, probe>>
    /\ UNCHANGED controller

\* logout.  The requests in flight are marked as sent before a logout.
logout ==
    /\ page = "mounted"
    /\ localStorage' = [token |-> <<>>, user |-> <<>>]
    /\ provider' = [provider EXCEPT !.user = <<>>, !.isAuthenticated = FALSE]
    /\ pending' = [k \in 1..Len(pending) |-> [stale |-> TRUE]]
    /\ UNCHANGED <<page, settled, search, profiles, handlers, probe>>
    /\ UNCHANGED controller

\* The page has just been loaded: AuthProvider holds its initial state and
\* localStorage what earlier visits left in it.
AuthInit ==
    /\ InitAt("forms")
    /\ page = "loaded"
    /\ localStorage \in [token : { <<>>, <<"t1">> },
                         user : { <<>>, << <<"json", "u1">> >>,
                                  << <<"text", "undefined">> >> }]
    /\ provider = [user |-> <<>>, loading |-> TRUE, isAuthenticated |-> FALSE]
    /\ pending = <<>>
    /\ settled = [outcome |-> "none", stale |-> FALSE]
    /\ search = [role |-> "", country |-> "India", limit |-> 20, jobs |-> <<>>,
                 loading |-> FALSE, fetch |-> "idle"]
    /\ profiles = {}
    /\ handlers = <<>>

AuthNext ==
    \/ checkAuth
    \/ checkAuthResponse
    \/ signIn
    \/ logout

\* The mount effect runs, and every request gets its answer or fails.
AuthSpec ==
    /\ AuthInit
    /\ [][AuthNext]_vars
    /\ WF_vars(page = "loaded" /\ checkAuth)
    /\ WF_vars(checkAuthResponse)

----------------------------------------------------------------------------
(* The web application: the job search page *)

\* SearchBar: the user edits the job title, the country or the limit; the
\* three inputs are never disabled.
setSearch ==
    /\ page = "search"
    /\ \E role \in {"", "dev", "qa"}, country \in {"India", "Germany"},
          limit \in {20, 30, 50, 100} :
          \/ search' = [search EXCEPT !.role = role]
          \/ search' = [search EXCEPT !.country = country]
          \/ search' = [search EXCEPT !.limit = limit]
    /\ UNCHANGED <<page, localStorage, provider, pending, settled, profiles,
                   handlers, probe>>
    /\ UNCHANGED controller

\* The Search button, which is disabled while loading, calls fetchJobs;
\* fetchJobs up to its await: without a job title it alerts and returns.
fetchJobs ==
    /\ page = "search"
    /\ ~search.loading
    /\ IF search.role = ""
       THEN UNCHANGED search
       ELSE search' = [search EXCEPT !.loading = TRUE, !.jobs = <<>>,
                                     !.fetch = "pending"]
    /\ UNCHANGED <<page, localStorage, provider, pending, settled, profiles,
                   handlers, probe>>
    /\ UNCHANGED controller

\* fetchJobs from the answer on.  The body is JSON with results, JSON
\* without results (also that of an HTTP error), or no JSON, on which
\* res.json() rejects; or no answer comes and fetch rejects.  Nothing
\* catches a rejection: it ends fetchJobs where it is.
fetchSettled ==
    /\ page = "search"
    /\ search.fetch = "pending"
    /\ \E answer \in {"results", "noResults", "notJson", "network"},
          results \in { <<"j1">>, <<"j1", "j2">> } :
          IF answer \in {"notJson", "network"}
          THEN search' = [search EXCEPT !.fetch = "rejected"]
          ELSE search' = [search EXCEPT
                             !.jobs = IF answer = "results" THEN results
                                      ELSE <<>>,
                             !.loading = FALSE,
                             !.fetch = "idle"]
    /\ UNCHANGED <<page, localStorage, provider, pending, settled, profiles,
                   handlers, probe>>
    /\ UNCHANGED controller

\* App as first rendered.
JobsInit ==
    /\ InitAt("forms")
    /\ page = "search"
    /\ search = [role |-> "", country |-> "India", limit |-> 20, jobs |-> <<>>,
                 loading |-> FALSE, fetch |-> "idle"]
    /\ localStorage = [token |-> <<>>, user |-> <<>>]
    /\ provider = [user |-> <<>>, loading |-> TRUE, isAuthenticated |-> FALSE]
    /\ pending = <<>>
    /\ settled = [outcome |-> "none", stale |-> FALSE]
    /\ profiles = {}
    /\ handlers = <<>>

JobsNext ==
    \/ setSearch
    \/ fetchJobs
    \/ fetchSettled

\* Every request is answered or fails.
JobsSpec == JobsInit /\ [][JobsNext]_vars /\ WF_vars(fetchSettled)

----------------------------------------------------------------------------
(* The web application: the profile routes *)

\* Requests to /api/profile served at once.
MaxHandlers == 2

\* GET and PUT /api/profile up to the answer of Profile.findOne: GET
\* responds with the profile it found; otherwise the handler goes on to
\* save a new or the merged profile.
findOne(i) ==
    /\ page = "server"
    /\ handlers[i].pc = "findOne"
    /\ LET h == handlers[i]
           found == { p \in profiles : p.user = h.user }
       IN  handlers' =
             [handlers EXCEPT ![i] =
                IF found = {}
                THEN [h EXCEPT !.pc = "save", !.profile = 0]
                ELSE IF h.method = "GET"
                THEN [h EXCEPT !.pc = "done", !.status = 200,
                               !.profile = (CHOOSE p \in found : TRUE)._id]
                ELSE [h EXCEPT !.pc = "save",
                               !.profile = (CHOOSE p \in found : TRUE)._id]]
    /\ UNCHANGED <<profiles, page, localStorage, provider, pending, settled,
                   search, probe>>
    /\ UNCHANGED controller

\* profile.save() and the response.  Saving a new profile inserts it; the
\* unique index on user rejects the insert when the collection holds a
\* profile of that user, the error is caught and answered with 500.  Saving
\* a profile that was found updates it.  A new document's _id is the number
\* of the request that made it.
save(i) ==
    /\ page = "server"
    /\ handlers[i].pc = "save"
    /\ LET h == handlers[i]
       IN  IF h.profile = 0
           THEN IF \E p \in profiles : p.user = h.user
                THEN /\ handlers' = [handlers EXCEPT ![i] =
                                        [h EXCEPT !.pc = "done", !.status = 500]]
                     /\ UNCHANGED profiles
                ELSE /\ profiles' = profiles \cup
                                      { [_id |-> i, user |-> h.user,
                                         data |-> h.body] }
                     /\ handlers' = [handlers EXCEPT ![i] =
                                        [h EXCEPT !.pc = "done", !.status = 200,
                                                  !.profile = i]]
           ELSE /\ profiles' = { IF p._id = h.profile
                                 THEN [p EXCEPT !.data = h.body] ELSE p :
                                 p \in profiles }
                /\ handlers' = [handlers EXCEPT ![i] =
                                   [h EXCEPT !.pc = "done", !.status = 200]]
    /\ UNCHANGED <<page, localStorage, provider, pending, settled, search,
                   probe>>
    /\ UNCHANGED controller

\* The requests have passed authenticate; the collection is empty or holds
\* the profile of user 1.  The body of a GET is empty.
ProfileInit ==
    /\ InitAt("forms")
    /\ page = "server"
    /\ profiles \in { {}, { [_id |-> 9, user |-> 1, data |-> ""] } }
    /\ handlers \in [1..MaxHandlers ->
                       { [method |-> "GET", user |-> u, body |-> "",
                          pc |-> "findOne", profile |-> 0, status |-> 0] :
                           u \in {1, 2} }
                       \cup
                       { [method |-> "PUT", user |-> u, body |-> b,
                          pc |-> "findOne", profile |-> 0, status |-> 0] :
                           u \in {1, 2}, b \in {"a", "b"} }]
    /\ localStorage = [token |-> <<>>, user |-> <<>>]
    /\ provider = [user |-> <<>>, loading |-> TRUE, isAuthenticated |-> FALSE]
    /\ pending = <<>>
    /\ settled = [outcome |-> "none", stale |-> FALSE]
    /\ search = [role |-> "", country |-> "India", limit |-> 20, jobs |-> <<>>,
                 loading |-> FALSE, fetch |-> "idle"]

ProfileNext == \E i \in 1..MaxHandlers : findOne(i) \/ save(i)

ProfileSpec == ProfileInit /\ [][ProfileNext]_vars

----------------------------------------------------------------------------
(* Single calls of the functions of the filler *)

\* The texts of at most n characters over an alphabet.
RECURSIVE TextsUpTo(_, _)
TextsUpTo(alphabet, n) ==
    IF n = 0 THEN { <<>> }
    ELSE LET shorter == TextsUpTo(alphabet, n - 1)
         IN  shorter \cup { Append(t, c) : t \in shorter, c \in alphabet }

\* A call that has not been made yet, and the call once it has returned.
Call(op, arg) == [op |-> op, arg |-> arg, done |-> FALSE, out |-> <<>>]

Return(call, out) == [call EXCEPT !.done = TRUE, !.out = out]

\* Responses of the answer service to be cleaned.
Responses == TextsUpTo({"a", " ", "\n", "\r", "\t"}, MaxResponseLen)

\* Text inputs handled on their own, and what the answer service says.
UnitTextInputs ==
    { TextInput(l, v) : l \in {L_Phone, L_Salary, L_CGPA, L_FilterBy},
                        v \in {<<>>, <<"7">>} }

UnitTextRuns ==
    { <<Returns(<<"3",".","5","/","4",".","0">>), Raises, Raises>>,
      <<Raises, Returns(<<"5">>), Raises>>,
      <<Raises, Raises, Raises>> }

\* What the modal selectors match at each of the passes of one location.
UnitPresences ==
    [1..MAX_RETRIES -> SUBSET (1..Len(MODAL_SELECTORS))]

\* What one call of the answer service can come to, and every behaviour of
\* the service over the attempts made for one question.
ServiceOutcomes ==
    { Raises, Returns(<<>>), Returns(<<" ">>), Returns(<<"Y","e","s">>),
      Returns(<<"N","o">>) }

UnitServiceRuns == [1..MAX_RETRIES -> ServiceOutcomes]

\* Questions put to the fallback table, and the shapes they are asked with.
Q_WorkAuthorization ==
    <<"A","r","e"," ","y","o","u"," ","a","u","t","h","o","r","i","z","e",
      "d"," ","t","o"," ","w","o","r","k"," ","i","n"," ","t","h","e"," ",
      "U","n","i","t","e","d"," ","S","t","a","t","e","s","?">>

Q_Sponsorship ==
    <<"W","i","l","l"," ","y","o","u"," ","r","e","q","u","i","r","e"," ",
      "s","p","o","n","s","o","r","s","h","i","p","?">>

Q_Relocate ==
    <<"W","i","l","l","i","n","g"," ","t","o"," ","r","e","l","o","c","a",
      "t","e","?">>

Q_SponsorshipByPhone ==
    <<"D","i","s","c","u","s","s"," ","s","p","o","n","s","o","r","s","h",
      "i","p"," ","b","y"," ","p","h","o","n","e","?">>

UnitQuestions ==
    { Q_WorkAuthorization, Q_Sponsorship, Q_Relocate, Q_SponsorshipByPhone,
      L_Phone, L_Salary, L_Visa, CheckboxQuestion(L_Remote) }

FieldTypes == {"text", "numeric", "boolean"}

\* Checkboxes handled on their own.
UnitCheckboxes ==
    { Checkbox(l, c) : l \in {L_Agree, L_Remote}, c \in BOOLEAN }

\* Radio groups handled on their own, and what the answer service says.
UnitRadioGroups ==
    { RadioGroup(L_Visa, o) : o \in { <<>>, <<<<"N","o">>, <<"Y","e","s">>>>,
                                      <<<<"Y","e","s">>, <<"N","o">>>> } }

UnitRadioRuns ==
    ServiceRuns \cup
        { <<Returns(<<"Y","e","s",","," ","I"," ","d","o">>), Raises, Raises>> }

\* Dropdowns handled on their own.
UnitSelects ==
    { Select(L_Visa, o) :
        o \in { YesNoOptions,
                << <<>>, <<" ","N","o"," ">>, <<"Y","e","s">>, <<"n","o">> >>,
                << <<"S","e","l","e","c","t"," ","a","n"," ","o","p","t","i","o","n">>,
                   <<"M","a","y","b","e">> >> } }

\* Elements whose label is derived on its own: every try reads nothing, a
\* blank, or a text.
UnitLabelTexts == { <<>>, <<" ">>, L_Phone, <<" ">> \o L_Salary }

UnitElements ==
    [aria_label : UnitLabelTexts,
     label_el : {<<>>} \cup { <<t>> : t \in UnitLabelTexts },
     placeholder : UnitLabelTexts,
     parent_label : UnitLabelTexts]

\* Labels whose shape is inferred on its own.
UnitLabels ==
    UnitQuestions \cup
        { <<"Y","e","a","r","s"," ","o","f"," ","E","x","p","e","r","i","e","n","c","e">>,
          <<"G","r","a","d","u","a","t","i","o","n"," ","y","e","a","r">>,
          <<"M","O","B","I","L","E">>,
          <<"P","h","o","n","e",","," ","i","f"," ","a","u","t","h","o","r","i","z","e","d"," ","t","o"," ","w","o","r","k">>,
          <<"E","x","p","e","c","t","e","d"," ","c","o","m","p","e","n","s","a","t","i","o","n">> }

UnitCalls ==
    { Call("clean", r) : r \in Responses }
      \cup { Call("responseError", [error |-> [status |-> st, url |-> u],
                                     storage |-> [token |-> t, user |-> v],
                                     pathname |-> p]) :
                 st \in { <<>>, <<400>>, <<401>>, <<500>> },
                 u \in { <<>>,
                         << <<"/","a","u","t","h","/","l","o","g","i","n">> >>,
                         << <<"/","a","u","t","h","/","r","e","g","i","s","t","e","r">> >>,
                         << <<"/","a","u","t","h","/","m","e">> >>,
                         << <<"/","p","r","o","f","i","l","e">> >> },
                 t \in { <<>>, <<"t1">> },
                 v \in { <<>>, <<"u1">> },
                 p \in { "/login", "/register", "/dashboard" } }
      \cup UNION { LET issued == generateToken(1, e, 0)
                       tokens == { issued, generateToken(1, <<"k2">>, 0),
                                   [form |-> "malformed"], [form |-> "empty"] }
                       Bearer == <<"B","e","a","r","e","r">>
                       Basic == <<"B","a","s","i","c">>
                   IN  { Call("authenticate",
                              [req |-> [authorization |-> h, cookies |-> c],
                               JWT_SECRET |-> e, users |-> u, now |-> d]) :
                           h \in { <<>>, <<Bearer>>, <<Basic, issued>> }
                                    \cup { <<Bearer, t>> : t \in tokens },
                           c \in { <<>>, <<issued>>, <<[form |-> "empty"]>> },
                           u \in { [up |-> TRUE, ids |-> {1}],
                                   [up |-> TRUE, ids |-> {}],
                                   [up |-> FALSE, ids |-> {}] },
                           d \in { 0, TOKEN_DAYS - 1, TOKEN_DAYS } }
                 : e \in { <<>>, <<"">>, <<"k1">> } }
      \cup { Call("shape", l) : l \in UnitLabels }
      \cup { Call("label", e) : e \in UnitElements }
      \cup { Call("select", [f |-> f, run |-> run]) :
                 f \in UnitSelects, run \in UnitRadioRuns }
      \cup { Call("radio", [f |-> f, run |-> run, interaction |-> x]) :
                 f \in UnitRadioGroups, run \in UnitRadioRuns, x \in Interactions }
      \cup { Call("checkbox", [f |-> f, run |-> run, interaction |-> x]) :
                 f \in UnitCheckboxes, run \in ServiceRuns, x \in Interactions }
      \cup { Call("fallback", [question |-> q, field_type |-> t]) :
                 q \in UnitQuestions, t \in FieldTypes }
      \cup { Call("resolve", [question |-> q, run |-> run]) :
                 q \in {L_Phone, L_Visa}, run \in UnitServiceRuns }
      \cup { Call("locate", p) : p \in UnitPresences }
      \cup { Call("fillText", [f |-> f, run |-> run]) :
                 f \in UnitTextInputs, run \in UnitTextRuns }

UnitInit ==
    /\ probe \in UnitCalls
    /\ Offline
    /\ scenario = ScenarioOff
    /\ site = "forms"
    /\ pc = "Idle"
    /\ job = 0
    /\ outcome = [j \in 1..MaxJobs |-> "Pending"]
    /\ result = "none"
    /\ stats = ZeroStats
    /\ page_num = 0
    /\ step = 0
    /\ consecutive_errors = 0
    /\ attempt = 0
    /\ modal = 0
    /\ buttons = NoButtons
    /\ fields = <<>>
    /\ fillPos = 0
    /\ sleeps = 0
    /\ checks = <<>>
    /\ stepOps = <<>>
    /\ seen = NothingSeen
    /\ fillPasses = 0
    /\ lastFill = NoFill
    /\ baseStats = ZeroStats

\* generate_answer cleans the response it got.
CallClean ==
    /\ probe.op = "clean"
    /\ ~probe.done
    /\ probe' = Return(probe, CleanAnswer(probe.arg))
    /\ UNCHANGED controller
    /\ UNCHANGED <<page, localStorage, provider, pending, settled, search,
                   profiles, handlers>>

\* The fill pass handles one text input.
CallFillText ==
    /\ probe.op = "fillText"
    /\ ~probe.done
    /\ probe' = Return(probe, FillTextInput(probe.arg.f, probe.arg.run))
    /\ UNCHANGED controller
    /\ UNCHANGED <<page, localStorage, provider, pending, settled, search,
                   profiles, handlers>>

\* The handler locates the modal.
CallLocate ==
    /\ probe.op = "locate"
    /\ ~probe.done
    /\ probe' = Return(probe, GetModalWithRetry(probe.arg))
    /\ UNCHANGED controller
    /\ UNCHANGED <<page, localStorage, provider, pending, settled, search,
                   profiles, handlers>>

\* The filler resolves the answer to one question.
CallResolve ==
    /\ probe.op = "resolve"
    /\ ~probe.done
    /\ probe' = Return(probe, GetAnswerWithRetry(probe.arg.question,
                                DetermineFieldType(probe.arg.question),
                                probe.arg.run))
    /\ UNCHANGED controller
    /\ UNCHANGED <<page, localStorage, provider, pending, settled, search,
                   profiles, handlers>>

\* The resolver takes the fallback answer for a question.
CallFallback ==
    /\ probe.op = "fallback"
    /\ ~probe.done
    /\ probe' = Return(probe, GetFallbackAnswer(probe.arg.question,
                                                 probe.arg.field_type))
    /\ UNCHANGED controller
    /\ UNCHANGED <<page, localStorage, provider, pending, settled, search,
                   profiles, handlers>>

\* The fill pass handles one checkbox.
CallCheckbox ==
    /\ probe.op = "checkbox"
    /\ ~probe.done
    /\ probe' = Return(probe, FillCheckbox(probe.arg.f, probe.arg.run,
                                            probe.arg.interaction))
    /\ UNCHANGED controller
    /\ UNCHANGED <<page, localStorage, provider, pending, settled, search,
                   profiles, handlers>>

\* The fill pass handles one radio group.
CallRadio ==
    /\ probe.op = "radio"
    /\ ~probe.done
    /\ probe' = Return(probe, FillRadioGroup(probe.arg.f, probe.arg.run,
                                              probe.arg.interaction))
    /\ UNCHANGED controller
    /\ UNCHANGED <<page, localStorage, provider, pending, settled, search,
                   profiles, handlers>>

\* The fill pass handles one dropdown.
CallSelect ==
    /\ probe.op = "select"
    /\ ~probe.done
    /\ probe' = Return(probe, FillSelect(probe.arg.f, probe.arg.run))
    /\ UNCHANGED controller
    /\ UNCHANGED <<page, localStorage, provider, pending, settled, search,
                   profiles, handlers>>

\* The filler derives the label of one element.
CallLabel ==
    /\ probe.op = "label"
    /\ ~probe.done
    /\ probe' = Return(probe, GetFieldLabel(probe.arg))
    /\ UNCHANGED controller
    /\ UNCHANGED <<page, localStorage, provider, pending, settled, search,
                   profiles, handlers>>

\* The filler infers the shape of one label.
CallShape ==
    /\ probe.op = "shape"
    /\ ~probe.done
    /\ probe' = Return(probe, DetermineFieldType(probe.arg))
    /\ UNCHANGED controller
    /\ UNCHANGED <<page, localStorage, provider, pending, settled, search,
                   profiles, handlers>>

\* GET /api/auth/me: the middleware, then the handler when next() was called.
CallAuthenticate ==
    /\ probe.op = "authenticate"
    /\ ~probe.done
    /\ probe' = Return(probe,
                  LET a == authenticate(probe.arg.req, probe.arg.JWT_SECRET,
                                        probe.arg.users, probe.arg.now)
                  IN  [next |-> a.next, status |-> a.status,
                       me |-> IF a.next = 1 THEN <<200>> ELSE <<>>])
    /\ UNCHANGED controller
    /\ UNCHANGED <<page, localStorage, provider, pending, settled, search,
                   profiles, handlers>>

\* A request of the API client fails.
CallResponseError ==
    /\ probe.op = "responseError"
    /\ ~probe.done
    /\ probe' = Return(probe, responseError(probe.arg.error, probe.arg.storage,
                                             probe.arg.pathname))
    /\ UNCHANGED controller
    /\ UNCHANGED <<page, localStorage, provider, pending, settled, search,
                   profiles, handlers>>

UnitNext ==
    \/ CallAuthenticate
    \/ CallResponseError
    \/ CallClean
    \/ CallShape
    \/ CallLabel
    \/ CallSelect
    \/ CallRadio
    \/ CallCheckbox
    \/ CallFallback
    \/ CallResolve
    \/ CallLocate
    \/ CallFillText

UnitSpec == UnitInit /\ [][UnitNext]_vars

----------------------------------------------------------------------------
(* Properties *)

\* Number of erroring ErrorChecks at the end of cs with no error-free one
\* after them.
RECURSIVE Streak(_)
Streak(cs) ==
    IF cs = <<>> \/ ~cs[Len(cs)] THEN 0
    ELSE 1 + Streak(SubSeq(cs, 1, Len(cs) - 1))

InLoop == pc \in {"Loop", "Upload", "Fill", "ErrorCheck", "Navigate", "Settle"}

Clicks == {"ClickSubmit", "ClickNext", "ClickReview"}

Range(seq) == {seq[i] : i \in 1..Len(seq)}

\* C1: within one attempt the consecutive-error count is the length of the
\* current run of erroring ErrorChecks (so it is 0 right after an error-free
\* one), the attempt is Aborted by the loop exactly when that run reaches 3,
\* the abort comes at that ErrorCheck, and no fill pass follows it: every
\* fill pass of the attempt is one that an ErrorCheck has followed.
C1_AbortOnThirdConsecutiveError ==
    /\ InLoop => /\ consecutive_errors = Streak(checks)
                 /\ Streak(checks) < 3
    /\ (pc = "Returned" /\ modal # 0) =>
          /\ (outcome[job] = "Aborted") <=> (Streak(checks) = 3)
          /\ outcome[job] = "Aborted" =>
                /\ consecutive_errors = 3
                /\ stepOps[Len(stepOps)] = "ErrorCheck"
                /\ fillPasses = Len(checks)
    /\ \A j \in 1..MaxJobs : outcome[j] \in Terminal /\ j = job => ~InLoop

C1_Witness ==
    /\ pc = "Returned"
    /\ outcome[job] = "Aborted"
    /\ checks = <<TRUE, TRUE, TRUE>>
    /\ fillPasses = 3

C3_SubmitWhenEnabled ==
    /\ seen.submit = "enabled" =>
          /\ stepOps = <<"ClickSubmit">>
          /\ pc = "Returned"
          /\ outcome[job] = "Submitted"
    /\ "ClickSubmit" \in Range(stepOps) => seen.submit = "enabled"
    /\ (job >= 1 /\ outcome[job] = "Submitted") =>
          /\ result = "true"
          /\ stats.applications_failed = baseStats.applications_failed
          /\ stats.applications_submitted =
                baseStats.applications_submitted + (IF pc = "Idle" THEN 1 ELSE 0)

C3_Witness ==
    /\ pc = "Idle"
    /\ job = 1
    /\ outcome[1] = "Submitted"
    /\ stats.applications_submitted = 1
    /\ stats.applications_failed = 0

\* C4: when all 3 passes of the modal location miss, the handler returns
\* False in the ordinary way with the attempt Aborted and
\* applications_failed up by 1 (1 for the first job), the caller can take
\* the result, and the next job can then be started.
C4_ModalNotFoundAborts ==
    /\ pc = "NotFound" => attempt = MAX_RETRIES /\ modal = 0
    /\ (pc = "Returned" /\ modal = 0) =>
          /\ attempt = MAX_RETRIES
          /\ outcome[job] = "Aborted"
          /\ result = "false"
          /\ stats.applications_failed = baseStats.applications_failed + 1
          /\ job = 1 => stats.applications_failed = 1
          /\ ENABLED RecordResult
    /\ (pc = "Idle" /\ job >= 1 /\ job < SiteLimit(site)) => ENABLED StartJob

C4_Witness ==
    /\ job = 2
    /\ pc = "Locate"
    /\ outcome[1] = "Aborted"
    /\ outcome[2] = "InProgress"
    /\ stats.applications_failed = 1
    /\ stats.errors_encountered = 0

\* C5: the step counter never passes MAX_STEPS, an attempt whose loop is
\* left without a submit click and without an abort is TimedOut after
\* exactly MAX_STEPS steps, and every attempt that is started eventually
\* reaches a terminal outcome.
C5_AttemptTerminates ==
    /\ [](step <= MAX_STEPS)
    /\ []((job >= 1 /\ outcome[job] = "TimedOut") =>
             (pc = "Idle" \/ (step = MAX_STEPS /\ result = "false")))
    /\ \A j \in 1..MaxJobs :
          (outcome[j] = "InProgress") ~> (outcome[j] \in Terminal)

C5_Witness ==
    /\ pc = "Returned"
    /\ outcome[job] = "TimedOut"
    /\ step = MAX_STEPS
    /\ Len(checks) = MAX_STEPS

\* C6: within one step at most one navigation button is clicked, and it is
\* the highest-priority one found enabled: submit whenever it is enabled,
\* next only when submit is not, review only when neither submit nor next
\* is.
C6_NavigationPriority ==
    /\ Cardinality({i \in 1..Len(stepOps) : stepOps[i] \in Clicks}) <= 1
    /\ seen.submit = "enabled" =>
          Range(stepOps) \cap Clicks = {"ClickSubmit"}
    /\ "ClickNext" \in Range(stepOps) =>
          seen.submit # "enabled" /\ seen.next = "enabled"
    /\ "ClickReview" \in Range(stepOps) =>
          /\ seen.submit # "enabled"
          /\ seen.next # "enabled"
          /\ seen.review = "enabled"
    /\ (seen.next = "enabled" /\ pc = "Settle") =>
          "ClickNext" \in Range(stepOps)

C6_Witness ==
    /\ pc = "Settle"
    /\ stepOps[Len(stepOps)] = "ClickNext"
    /\ buttons.review = "enabled"
    /\ seen.submit = "disabled"

\* C7: every click of a step, the submit click included, comes after that
\* step's fill pass and its error check.
C7_ClickAfterFillAndErrorCheck ==
    \A i \in 1..Len(stepOps) :
        stepOps[i] \in Clicks =>
            /\ \E k \in 1..(i - 1) : stepOps[k] = "Fill"
            /\ \E k \in 1..(i - 1) : stepOps[k] = "ErrorCheck"

\* C8: at most one attempt is in progress at any time, a job is started
\* only when every earlier job is terminal, and a job that ended Aborted
\* or TimedOut is followed by the next job while the batch has jobs left.
C8_OneAttemptAtATime ==
    /\ Cardinality({j \in 1..MaxJobs : outcome[j] = "InProgress"}) <= 1
    /\ \A j \in 1..MaxJobs :
          /\ outcome[j] # "Pending" =>
                \A i \in 1..(j - 1) : outcome[i] \in Terminal
          /\ outcome[j] = "InProgress" => j = job /\ pc # "Idle"
          /\ j > job => outcome[j] = "Pending"
    /\ (pc = "Idle" /\ job >= 1 /\ job < SiteLimit(site)
          /\ outcome[job] \in {"Aborted", "TimedOut"}) =>
          ENABLED (StartJob /\ job' = job + 1)

C8_Witness ==
    /\ job = 2
    /\ outcome[1] = "TimedOut"
    /\ outcome[2] = "InProgress"
    /\ pc = "Fill"

\* C9: no control whose label contains a skip keyword is ever written,
\* selected, clicked or given a file, whatever its kind, and handling it
\* adds nothing to fields_filled.
C9_SkipLabelsUntouched ==
    /\ \A i \in 1..Len(fields) :
          IsSkipLabel(fields[i].label) => ~fields[i].touched
    /\ (lastFill.pos # 0 /\ IsSkipLabel(lastFill.before.label)) =>
          lastFill.after = lastFill.before /\ lastFill.filled = 0

\* C10: a control that holds a non-empty value shorter than 100 when the
\* fill pass comes to it is left as it is, with no answer-service call and
\* no fields_filled increment, so a fill pass over the page it has just
\* filled changes no value.
C10_PrefilledLeftAlone ==
    (/\ lastFill.pos # 0
     /\ lastFill.before.value # <<>>
     /\ Len(lastFill.before.value) < 100) =>
        /\ lastFill.after = lastFill.before
        /\ lastFill.filled = 0
        /\ lastFill.calls = 0

\* C11: a control of any kind whose label contains a consent keyword is
\* resolved to the affirmative without a call to the answer service: a
\* checkbox is left checked when its interaction worked, a dropdown with a
\* "Yes" option has it selected.
C11_ConsentWithoutService ==
    (lastFill.pos # 0
       /\ ContainsAny(Lower(lastFill.before.label), CONSENT_KEYWORDS)) =>
        /\ lastFill.calls = 0
        /\ lastFill.before.kind = "checkbox" =>
              (lastFill.after.checked \/ lastFill.after = lastFill.before)
        /\ lastFill.before.kind = "select" =>
              lastFill.after.value = <<"Y","e","s">>

Returned(op) == probe.op = op /\ probe.done

\* s has the form "<a>/<b>": one "/", with something on either side.
HasFractionForm(s) ==
    \E i \in 2..(Len(s) - 1) :
        s[i] = "/" /\ \A k \in 1..Len(s) : s[k] = "/" => k = i

\* C12: when a text input is numeric by its label and the answer resolved
\* for it has the form "<a>/<b>", the value written is exactly "<a>".
C12_FractionReducedForNumericFields ==
    Returned("fillText") =>
        LET f == probe.arg.f
            shape == DetermineFieldType(f.label)
            answer == GetAnswerWithRetry(f.label, shape, probe.arg.run).answer
        IN  (probe.out.filled = 1 /\ shape = "numeric" /\ HasFractionForm(answer)) =>
                probe.out.field.value = BeforeSlash(answer)

\* C13: the cleaned answer holds no line feed and no carriage return, no
\* two whitespace characters in a row and no whitespace at either end, and
\* cleaning it again returns it unchanged.
C13_CleanedAnswerIsNormal ==
    Returned("clean") =>
        LET a == probe.out IN
        /\ \A i \in 1..Len(a) : a[i] \notin {"\n", "\r"}
        /\ \A i \in 1..(Len(a) - 1) : ~(IsSpace(a[i]) /\ IsSpace(a[i + 1]))
        /\ a # <<>> => ~IsSpace(a[1]) /\ ~IsSpace(a[Len(a)])
        /\ CleanAnswer(a) = a

C13_Witness ==
    /\ Returned("clean")
    /\ probe.arg = <<" ", "a", "\n", "a">>
    /\ probe.out = <<"a", " ", "a">>

\* C14: the locator makes at most MAX_RETRIES passes; it returns the first
\* selector in list order that matches at the first pass where one matches,
\* and None only when all MAX_RETRIES passes missed; it waits once between
\* two consecutive passes and at no other time: MAX_RETRIES - 1 waits on a
\* total miss, one wait less than the passes made on a hit.
C14_LocatorPassesAndWaits ==
    Returned("locate") =>
        LET p == probe.arg
            r == probe.out
            hits == {k \in 1..3 : p[k] # {}}
        IN  /\ r.passes \in 1..3
            /\ (r.modal = 0) <=> (hits = {})
            /\ r.modal = 0 => r.passes = 3 /\ r.sleeps = 2
            /\ r.modal # 0 =>
                  /\ r.passes \in hits
                  /\ \A k \in hits : r.passes <= k
                  /\ r.modal \in p[r.passes]
                  /\ \A m \in p[r.passes] : r.modal <= m
                  /\ r.sleeps = r.passes - 1

C14_Witness ==
    /\ Returned("locate")
    /\ probe.arg = <<{}, {2, 3}, {1}>>
    /\ probe.out = [modal |-> 2, passes |-> 2, sleeps |-> 1]

\* An attempt that gave an answer: it returned a text that is not blank.
GoodResponse(r) == ~r.raises /\ \E i \in 1..Len(r.text) : ~IsSpace(r.text[i])

\* C15: the resolver calls the answer service at most 3 times for a
\* question, stops at the first response that is not blank and returns it,
\* waits RETRY_DELAY between every two consecutive attempts, whether the
\* earlier one raised or returned nothing, and takes the fallback only when
\* all 3 attempts failed.
C15_ResolverAttemptsAndWaits ==
    Returned("resolve") =>
        LET run == probe.arg.run
            r == probe.out
            good == {k \in 1..3 : GoodResponse(run[k])}
        IN  /\ r.calls \in 1..3
            /\ r.fallback <=> (good = {})
            /\ r.fallback => r.calls = 3
            /\ ~r.fallback =>
                  /\ r.calls \in good
                  /\ \A k \in good : r.calls <= k
                  /\ Strip(r.answer) = Strip(run[r.calls].text)
            /\ r.sleeps = r.calls - 1

\* The keywords of the fallback table that stand before the boolean rule.
FallbackKeywords ==
    << <<"p","h","o","n","e">>, <<"m","o","b","i","l","e">>, <<"e","m","a","i","l">>,
       <<"c","i","t","y">>, <<"s","t","a","t","e">>, <<"y","e","a","r">>,
       <<"s","a","l","a","r","y">>,
       <<"c","o","m","p","e","n","s","a","t","i","o","n">> >>

\* C16: the fallback for a boolean question is "No" when the question
\* mentions sponsorship and "Yes" otherwise, whatever else the question
\* mentions; the fallback for a question of another shape that mentions no
\* keyword of the table is "Not applicable".
C16_BooleanFallback ==
    Returned("fallback") =>
        LET q == Lower(probe.arg.question) IN
        /\ probe.arg.field_type = "boolean" =>
              probe.out = IF Contains(q, <<"s","p","o","n","s","o","r","s","h","i","p">>)
                          THEN <<"N","o">>
                          ELSE <<"Y","e","s">>
        /\ (probe.arg.field_type # "boolean" /\ ~ContainsAny(q, FallbackKeywords)) =>
              probe.out = <<"N","o","t"," ","a","p","p","l","i","c","a","b","l","e">>

\* C17: once the modal is located, every DOM query made to handle a
\* control of the fill pass, the look-up of its label element included, is
\* made on the modal and none on the whole page.
C17_QueriesScopedToModal ==
    (modal # 0 /\ lastFill.pos # 0) => lastFill.scopes \subseteq {"modal"}

\* C18: on the 3-page form (dropdown Yes/No answered Yes, then a file
\* input without a file, then an enabled submit button) the attempt has
\* selected "Yes" and uploaded the resume exactly once when page 3 is shown,
\* it clicks submit there and nothing else, and it ends Submitted with
\* applications_submitted = 1 and applications_failed = 0.
C18_ThreePageForm ==
    scenario.phase = 3 =>
        /\ scenario.chosen = <<"Y","e","s">>
        /\ scenario.uploads = 1
        /\ page_num = 3 \/ pc = "Idle"
        /\ pc \in {"Loop", "Returned", "Idle"}
        /\ pc = "Loop" => ENABLED BeginStep /\ ~ENABLED Timeout
        /\ pc = "Returned" => stepOps = <<"ClickSubmit">>
        /\ pc # "Loop" => outcome[job] = "Submitted"
        /\ stats.applications_failed = 0
        /\ stats.applications_submitted = (IF pc = "Idle" THEN 1 ELSE 0)

C18_Witness ==
    /\ scenario = [phase |-> 3, uploads |-> 1, chosen |-> <<"Y","e","s">>]
    /\ pc = "Idle"
    /\ outcome[1] = "Submitted"
    /\ stats.applications_submitted = 1
    /\ stats.applications_failed = 0
    /\ stats.fields_filled = 1

\* C19: a checkbox is changed exactly when its desired state (checked for
\* a consent label, otherwise what the resolved answer says) differs from
\* its current state: it is then checked or unchecked accordingly, as long
\* as the page lets one of the two interactions through, and it is not
\* touched when it is in the desired state already.
C19_CheckboxToggledWhenDifferent ==
    (Returned("checkbox") /\ probe.arg.interaction # "bothFail") =>
        LET f == probe.arg.f
            answer == GetAnswerWithRetry(CheckboxQuestion(f.label), "boolean",
                                         probe.arg.run).answer
            desired == \/ ContainsAny(Lower(f.label), CONSENT_KEYWORDS)
                       \/ Contains(Lower(answer), <<"y","e","s">>)
            after == probe.out.field
        IN  /\ after.checked = desired
            /\ after.touched <=> (desired # f.checked)


\* C20: a non-empty radio group whose radios answer click() ends with the
\* first option that matches the resolved choice (case-insensitive substring
\* in either direction) chosen when there is one, and with the first radio
\* chosen only when no option matches; a matching selection is never
\* replaced by the first radio.
C20_RadioGroupSelection ==
    (Returned("radio") /\ probe.arg.f.options # <<>>
                       /\ probe.arg.interaction = "ok") =>
        LET f == probe.arg.f
            options == StripAll(f.options)
            choice == GetAnswerWithRetry(OptionsQuestion(f.label, options, 5),
                                         "text", probe.arg.run).answer
            hits == {i \in 1..Len(options) : FuzzyMatch(choice, options[i])}
            after == probe.out.field
        IN  /\ after.touched
            /\ after.value =
                   IF hits = {} THEN options[1]
                   ELSE options[CHOOSE i \in hits : \A j \in hits : i <= j]


\* C21: the option a dropdown is left on is the first option in document
\* order that is not a placeholder (empty, "select", "select an option") and
\* whose text contains the answer or is contained in it, case-insensitively;
\* the control then counts as one field filled.  When no option matches,
\* nothing is selected and fields_filled is not incremented.
C21_SelectFirstMatchingOption ==
    Returned("select") =>
        LET f == probe.arg.f
            texts == f.options
            listed == {i \in 1..Len(texts) :
                          Lower(Strip(texts[i])) \notin PLACEHOLDER_OPTIONS}
            asked == [i \in 1..Cardinality(listed) |->
                          Strip(texts[CHOOSE k \in listed :
                                   Cardinality({j \in listed : j <= k}) = i])]
            choice == GetAnswerWithRetry(OptionsQuestion(f.label, asked, 8),
                                         "text", probe.arg.run).answer
            hits == {i \in listed : FuzzyMatch(choice, Strip(texts[i]))}
        IN  IF hits = {}
            THEN probe.out.field = f /\ probe.out.filled = 0
            ELSE /\ probe.out.field.value =
                       Strip(texts[CHOOSE i \in hits : \A j \in hits : i <= j])
                 /\ probe.out.field.touched
                 /\ probe.out.filled = 1

C21_Witness ==
    /\ Returned("select")
    /\ probe.arg.f.options[1] = <<>>
    /\ probe.arg.run[1] = Returns(<<"N","o">>)
    /\ probe.out.field.value = <<"N","o">>
    /\ probe.out.filled = 1

C21_WitnessNoMatch ==
    /\ Returned("select")
    /\ probe.arg.f.options[2] = <<"M","a","y","b","e">>
    /\ probe.out.field.value = <<>>
    /\ probe.out.filled = 0


\* C22: the upload step of a pass attaches the resume to file inputs that
\* hold no file and to nothing else, so a file input that holds a file (one
\* attached by an earlier pass on the same page included) is left as it is;
\* whether the upload worked or raised, the step goes on to the fill pass
\* with the attempt in progress and no failure counted.
C22_ResumeAttachedOnlyWhenMissing ==
    (pc = "Fill" /\ fillPos = 1 /\ lastFill.pos = 0) =>
        LET before == lastFill.before
            after == lastFill.after
        IN  /\ after = fields
            /\ Len(after) = Len(before)
            /\ \A i \in 1..Len(before) :
                  /\ (before[i].kind = "file" /\ before[i].files > 0) =>
                        after[i] = before[i]
                  /\ after[i] # before[i] =>
                        /\ before[i].kind = "file"
                        /\ before[i].files = 0
                        /\ after[i] = [before[i] EXCEPT !.files = 1, !.touched = TRUE]
            /\ outcome[job] = "InProgress"
            /\ result = "none"
            /\ stats.applications_failed = baseStats.applications_failed

C22_Witness ==
    /\ pc = "Fill"
    /\ fillPos = 1
    /\ fillPasses = 2
    /\ page_num = 1
    /\ lastFill.before = <<[FileInput(L_Resume, 0) EXCEPT !.files = 1, !.touched = TRUE]>>
    /\ lastFill.after = lastFill.before


\* C23: the label derived for an element is the stripped text of the first
\* of the four strategies (aria-label, label element for the id, placeholder,
\* enclosing label) that yields a text which is not blank; it is never empty
\* or blank, and it is "Unknown" exactly when no strategy yields such a text.
C23_LabelFromFirstStrategy ==
    Returned("label") =>
        LET e == probe.arg
            yields == << e.aria_label,
                         IF e.label_el = <<>> THEN <<>> ELSE e.label_el[1],
                         e.placeholder,
                         e.parent_label >>
            good == {k \in 1..4 : Strip(yields[k]) # <<>>}
        IN  /\ Strip(probe.out) # <<>>
            /\ good = {} => probe.out = <<"U","n","k","n","o","w","n">>
            /\ good # {} =>
                  probe.out = Strip(yields[CHOOSE k \in good : \A j \in good : k <= j])


\* C24: the shape inferred for a label is numeric when the label contains
\* phone, mobile, salary or compensation, or both year and experience;
\* otherwise boolean when it contains "authorized to work" or "require
\* sponsorship"; otherwise text (case-insensitively).  A label that matches
\* a numeric and a boolean pattern is numeric.
C24_ShapeInference ==
    Returned("shape") =>
        LET l == Lower(probe.arg)
            has(w) == Contains(l, w)
            numeric == \/ has(<<"p","h","o","n","e">>) \/ has(<<"m","o","b","i","l","e">>)
                       \/ has(<<"s","a","l","a","r","y">>) \/ has(<<"c","o","m","p","e","n","s","a","t","i","o","n">>)
                       \/ (has(<<"y","e","a","r">>) /\ has(<<"e","x","p","e","r","i","e","n","c","e">>))
            boolean == \/ has(<<"a","u","t","h","o","r","i","z","e","d"," ","t","o"," ","w","o","r","k">>)
                       \/ has(<<"r","e","q","u","i","r","e"," ","s","p","o","n","s","o","r","s","h","i","p">>)
        IN  /\ probe.out \in {"numeric", "boolean", "text"}
            /\ (probe.out = "numeric") <=> numeric
            /\ (probe.out = "boolean") <=> (boolean /\ ~numeric)
            /\ (probe.out = "text") <=> (~boolean /\ ~numeric)

C24_Witness ==
    /\ Returned("shape")
    /\ probe.arg = <<"P","h","o","n","e",","," ","i","f"," ","a","u","t","h","o","r","i","z","e","d"," ","t","o"," ","w","o","r","k">>
    /\ probe.out = "numeric"


C26_ModalLocatedAgainAfterClick ==
    [][ (pc = "Settle" /\ stepOps[Len(stepOps)] \in {"ClickNext", "ClickReview"}) =>
            pc' = "Locate" ]_vars


\* C27: the consecutive-error count is always between 0 and 3, and it is 3
\* only when the handler has returned with the attempt Aborted; choosing and
\* clicking Next or Review, and the page that is rendered after the click,
\* leave the count as it is, so a streak is carried across pages.
C27_ErrorCountRange ==
    /\ consecutive_errors = 0
    /\ [][ /\ consecutive_errors' \in 0..3
           /\ consecutive_errors' = 3 =>
                 pc' = "Returned" /\ outcome'[job'] = "Aborted"
           /\ pc \in {"Navigate", "Settle"} =>
                 consecutive_errors' = consecutive_errors
         ]_vars

C27_Witness ==
    /\ pc = "Loop"
    /\ stepOps = <<>>
    /\ page_num = 3
    /\ checks = <<TRUE, TRUE>>
    /\ consecutive_errors = 2


C29_RaisingErrorQueryIsErrorFree ==
    (seen.markers = "raises" /\ stepOps # <<>>
        /\ stepOps[Len(stepOps)] = "ErrorCheck") =>
        /\ checks[Len(checks)] = FALSE
        /\ consecutive_errors = 0
        /\ pc = "Navigate"
        /\ outcome[job] = "InProgress"
        /\ result = "none"
        /\ stats.applications_failed = baseStats.applications_failed
        /\ stats.errors_encountered =
              baseStats.errors_encountered
                + Cardinality({k \in 1..Len(checks) : checks[k]})

C29_Witness ==
    /\ seen.markers = "raises"
    /\ pc = "Navigate"
    /\ checks = <<TRUE, TRUE, FALSE>>
    /\ consecutive_errors = 0
    /\ stats.errors_encountered = 2


\* C30: an error check that finds an error and leaves the count below 3
\* is followed by the navigation of the same step: an enabled Next button is
\* clicked, or else an enabled Review button, and only without either does
\* the step end with no click.  The Next click adds 1 to the page number and
\* the Review click leaves it alone.
C30_NavigationAfterError ==
    [][ /\ (stepOps # <<>> /\ stepOps[Len(stepOps)] = "ErrorCheck"
              /\ checks[Len(checks)] /\ consecutive_errors < 3) =>
             /\ pc = "Navigate"
             /\ Clickable(buttons.next) => ENABLED ClickNext
             /\ (~Clickable(buttons.next) /\ Clickable(buttons.review)) =>
                   ENABLED ClickReview
             /\ (Clickable(buttons.next) \/ Clickable(buttons.review)) =>
                   ~ENABLED NoButton
        /\ (pc = "Navigate" /\ pc' = "Settle") =>
             /\ stepOps'[Len(stepOps')] \in {"ClickNext", "ClickReview"}
             /\ page_num' = page_num +
                   (IF stepOps'[Len(stepOps')] = "ClickNext" THEN 1 ELSE 0)
      ]_vars

C30_Witness ==
    /\ pc = "Settle"
    /\ stepOps = <<"Upload", "Fill", "ErrorCheck", "ClickNext">>
    /\ checks = <<TRUE, TRUE>>
    /\ consecutive_errors = 2
    /\ page_num = 3


\* C31: a token issued by register or login (generateToken under the
\* server's JWT_SECRET, set or unset) and sent as the Bearer token passes
\* authenticate while it has not expired and its user exists.
C31_IssuedTokenAccepted ==
    Returned("authenticate") =>
        LET a == probe.arg
            Bearer == <<"B","e","a","r","e","r">>
        IN  ( /\ a.req.authorization = <<Bearer, generateToken(1, a.JWT_SECRET, 0)>>
              /\ a.now < TOKEN_DAYS
              /\ a.users.up
              /\ 1 \in a.users.ids )
            => probe.out.next = 1

\* C32: authenticate calls next() at most once, and exactly when a token was
\* supplied (Bearer header, else cookie), verifies and names a user; in
\* every other case next() is not called and exactly one response is sent,
\* 401 for a missing, invalid or expired token or a missing user and 500
\* otherwise; the route sends exactly one response in all.
C32_NextOnceOrOneResponse ==
    Returned("authenticate") =>
        LET a == probe.arg
            h == a.req.authorization
            bearer == h # <<>> /\ h[1] = <<"B","e","a","r","e","r">>
            supplied == IF bearer THEN Len(h) = 2 /\ h[2].form # "empty"
                        ELSE a.req.cookies # <<>> /\ a.req.cookies[1].form # "empty"
            token == IF bearer THEN h[2] ELSE a.req.cookies[1]
            verifies == /\ supplied
                        /\ token.form = "jwt"
                        /\ a.JWT_SECRET # <<>>
                        /\ token.key = a.JWT_SECRET[1]
            expired == verifies /\ a.now >= token.exp
            known == a.users.up /\ token.userId \in a.users.ids
            out == probe.out
        IN  /\ out.next \in {0, 1}
            /\ out.next = 1 <=> (verifies /\ ~expired /\ known)
            /\ out.next = 1 => out.status = <<>>
            /\ out.next = 0 =>
                  out.status = IF verifies /\ ~expired /\ ~a.users.up
                               THEN <<500>> ELSE <<401>>
            /\ Len(out.status \o out.me) = 1

\* A valid token in the cookie, behind a header that is no Bearer header,
\* passes; the handler answers 200.
C32_Witness ==
    /\ Returned("authenticate")
    /\ probe.arg.req.authorization # <<>>
    /\ probe.arg.req.authorization[1] = <<"B","a","s","i","c">>
    /\ probe.arg.req.cookies # <<>>
    /\ probe.out.next = 1
    /\ probe.out.me = <<200>>

\* The database fails under a valid token: 500 and no next().
C32_WitnessServerError ==
    /\ Returned("authenticate")
    /\ probe.out.next = 0
    /\ probe.out.status = <<500>>


\* C38: the response interceptor removes token and user from localStorage
\* on a 401 only when the request URL is not the login or register
\* endpoint, and then it removes both; a 401 from /auth/login or
\* /auth/register and every error that is no 401 leave localStorage as it
\* was; the error is rejected to the caller in every case.
C38_InterceptorClearsOn401Only ==
    Returned("responseError") =>
        LET e == probe.arg.error
            before == probe.arg.storage
            after == probe.out.localStorage
            authEndpoint ==
                e.url \in { << <<"/","a","u","t","h","/","l","o","g","i","n">> >>,
                            << <<"/","a","u","t","h","/","r","e","g","i","s","t","e","r">> >> }
        IN  /\ after # before => (e.status = <<401>> /\ ~authEndpoint)
            /\ (e.status = <<401>> /\ ~authEndpoint) =>
                   after = [token |-> <<>>, user |-> <<>>]
            /\ (e.status = <<401>> /\ authEndpoint) => after = before
            /\ e.status # <<401>> => after = before
            /\ probe.out.rejected = e

\* A 401 from /auth/me with a token and a user stored: both are removed and
\* the error is rejected.
C38_Witness ==
    /\ Returned("responseError")
    /\ probe.arg.error = [status |-> <<401>>,
                          url |-> << <<"/","a","u","t","h","/","m","e">> >>]
    /\ probe.arg.storage = [token |-> <<"t1">>, user |-> <<"u1">>]
    /\ probe.out.localStorage = [token |-> <<>>, user |-> <<>>]
    /\ probe.out.rejected = probe.arg.error

\* A 401 from /auth/login with a token stored: the storage is kept.
C38_WitnessLogin ==
    /\ Returned("responseError")
    /\ probe.arg.error = [status |-> <<401>>,
                          url |-> << <<"/","a","u","t","h","/","l","o","g","i","n">> >>]
    /\ probe.arg.storage = [token |-> <<"t1">>, user |-> <<"u1">>]
    /\ probe.out.localStorage = probe.arg.storage


\* C33: whenever no checkAuth is in flight, that is after any sequence of
\* completed checkAuth, login, register and logout operations,
\* isAuthenticated is true exactly when user is not null.
C33_AuthenticatedIffUser ==
    pending = <<>> => (provider.isAuthenticated <=> provider.user # <<>>)

\* A checkAuth was overtaken by a logout and then failed for the network:
\* nobody is signed in.
C33_Witness ==
    /\ page = "mounted"
    /\ pending = <<>>
    /\ settled = [outcome |-> "network", stale |-> TRUE]
    /\ ~provider.isAuthenticated
    /\ provider.user = <<>>

\* After a login and a confirming checkAuth the user is signed in.
C33_WitnessSignedIn ==
    /\ pending = <<>>
    /\ settled = [outcome |-> "success", stale |-> FALSE]
    /\ provider.isAuthenticated
    /\ provider.user = <<"u2">>
    /\ localStorage.token = <<"t2">>

\* C34: the answer to a checkAuth that was in flight when logout completed
\* neither sets isAuthenticated back to true nor writes a user into
\* localStorage; and whenever no checkAuth is in flight and isAuthenticated
\* is true, localStorage holds a token.
C34_LogoutIsFinal ==
    [][ /\ ( /\ Len(pending') < Len(pending)
             /\ page' = page
             /\ settled'.stale )
           => ( /\ ~(provider'.isAuthenticated /\ ~provider.isAuthenticated)
                /\ localStorage'.user \in {localStorage.user, <<>>} )
        /\ (pending' = <<>> /\ provider'.isAuthenticated)
               => localStorage'.token # <<>>
      ]_vars

\* C35: every checkAuth sets loading to false in the end: at once without a
\* token, and with the answer to /auth/me whatever it is (success, body
\* without success, 401, other HTTP error, no response), also when the
\* stored user could not be parsed; an answer that is a network error leaves
\* user, isAuthenticated and localStorage as they were, so the cached
\* sign-in and the token are kept.
C35_CheckAuthEndsLoading ==
    /\ provider.loading ~> ~provider.loading
    /\ [][ /\ (page = "loaded" /\ page' = "mounted" /\ localStorage.token = <<>>)
                 => ~provider'.loading
           /\ (Len(pending') < Len(pending) /\ page' = page)
                 => ~provider'.loading
           /\ ( /\ Len(pending') < Len(pending)
                /\ page' = page
                /\ settled'.outcome = "network" )
                 => ( /\ provider'.user = provider.user
                      /\ provider'.isAuthenticated = provider.isAuthenticated
                      /\ localStorage' = localStorage )
         ]_vars

\* The backend was not reachable: the stored user stays signed in with its
\* token and loading is over.
C35_Witness ==
    /\ pending = <<>>
    /\ settled = [outcome |-> "network", stale |-> FALSE]
    /\ ~provider.loading
    /\ provider.isAuthenticated
    /\ provider.user = <<"u1">>
    /\ localStorage = [token |-> <<"t1">>, user |-> << <<"json", "u1">> >>]

\* The stored user could not be parsed and the server answered 500: loading
\* is over all the same.
C35_WitnessUnparsable ==
    /\ pending = <<>>
    /\ settled.outcome = "500"
    /\ ~provider.loading
    /\ ~provider.isAuthenticated
    /\ localStorage = [token |-> <<"t1">>, user |-> <<>>]


\* C36: every search that fetchJobs starts sets loading back to false in the
\* end, whatever comes of the request (results, no results, a body that is
\* no JSON, a network failure); and while loading is true the button starts
\* no second fetch.
C36_SearchEndsLoading ==
    /\ search.loading ~> ~search.loading
    /\ [](search.loading => ~ENABLED fetchJobs)


\* C37: whatever way concurrent GET and PUT /api/profile requests of a user
\* interleave, the collection holds at most one profile of the user and no
\* request ends with a 500.
C37_OneProfileNoServerError ==
    /\ \A p, q \in profiles : p.user = q.user => p = q
    /\ \A i \in 1..MaxHandlers : handlers[i].status # 500

====
